---- MODULE Spec2Model ----
(***************************************************************************)
(* A model of simple-nerf-rust: the ray/sample generator (dataset), the    *)
(* coordinate encoder, the scene network and the volume renderer.          *)
(*                                                                         *)
(* Tensors are modelled by their shape (a sequence of dimension sizes,     *)
(* computed through the same chain of tensor operations as the code) and,  *)
(* where values matter, by a function from index tuples to exact numbers.  *)
(* A tensor operation whose shape check fails panics in the tensor         *)
(* library; that outcome is the shape BadShape, which every later          *)
(* operation propagates.                                                   *)
(***************************************************************************)
EXTENDS Integers, Sequences, FiniteSets, TLC

(***************************************************************************)
(* Bounds of the model.                                                    *)
(***************************************************************************)
MaxImages == 3
MaxPoints == 2
MaxHeight == 2
MaxWidth == 2
NoiseSteps == 2

MaxEncodingFactor == 3

MaxRows == 2

MaxInputSize == 5

MaxHiddenSize == 2

MaxSceneFactor == 1

MaxRaysPerChunk == 3

MaxSamples == 3

MaxElems == 2

MaxLevel == 2

MaxFocal == 3

MaxSceneRows == 3

(***************************************************************************)
(* Small arithmetic helpers.                                                *)
(***************************************************************************)
Min(a, b) == IF a <= b THEN a ELSE b

Max(a, b) == IF a >= b THEN a ELSE b

Abs(a) == IF a < 0 THEN -a ELSE a

RECURSIVE SeqProduct(_)
SeqProduct(s) == IF s = <<>> THEN 1 ELSE Head(s) * SeqProduct(Tail(s))

(***************************************************************************)
(* f32 arithmetic of split_for_training.  A ratio is sign * m / 2^24 with  *)
(* m a natural number (every such value with m <= 2^24 is an f32), or NaN. *)
(***************************************************************************)
F32Unit == 2 ^ 24

Ratio(neg, m) == [nan |-> FALSE, neg |-> neg, m |-> m]

RatioNaN == [nan |-> TRUE, neg |-> FALSE, m |-> 0]

\* 0.8f32 = 13421773 / 2^24, the ratio of the repository's splitting test.
RatioTest == Ratio(FALSE, 13421773)

Ratios ==
    { Ratio(FALSE, 0), Ratio(FALSE, F32Unit \div 4), Ratio(FALSE, F32Unit \div 2),
      RatioTest, Ratio(FALSE, F32Unit), Ratio(TRUE, F32Unit \div 2),
      Ratio(FALSE, 3 * (F32Unit \div 2)), RatioNaN }

\* f32::clamp(0.0, 1.0): NaN stays NaN.
ClampNoUpper(ratio) ==
    IF ratio.nan THEN ratio
    ELSE IF ratio.neg THEN Ratio(FALSE, 0)
    ELSE ratio

Clamp(ratio) ==
    IF ratio.nan THEN ratio
    ELSE IF ratio.neg THEN Ratio(FALSE, 0)
    ELSE IF ratio.m > F32Unit THEN Ratio(FALSE, F32Unit)
    ELSE ratio

\* The number of low bits an exact product p (in units of 2^-24) loses when
\* it is stored in the 24-bit significand of an f32.
BitsOver(p) ==
    IF p < F32Unit THEN 0
    ELSE CHOOSE e \in 1..7 : p \div (2 ^ (23 + e)) = 1

RoundHalfEven(p, q) ==
    LET lo == p \div q
        r == p % q
    IN  IF 2 * r < q THEN lo
        ELSE IF 2 * r > q THEN lo + 1
        ELSE IF lo % 2 = 0 THEN lo ELSE lo + 1

\* m/2^24 * (n as f32), rounded to nearest-even as the f32 product is.
F32Mul(m, n) ==
    LET p == m * n
        q == 2 ^ BitsOver(p)
    IN  RoundHalfEven(p, q) * q

\* f32::round (half away from zero) of x/2^24 >= 0, then `as usize`.
RoundFloor(x) == x \div F32Unit

RoundToUsize(x) == (x + F32Unit \div 2) \div F32Unit

\* (ratio.clamp(0.0, 1.0) * (len as f32)).round() as usize; NaN casts to 0.
SplitIndex(ratio, n) ==
    LET c == Clamp(ratio)
    IN  IF c.nan THEN 0 ELSE RoundToUsize(F32Mul(c.m, n))

(***************************************************************************)
(* Shapes.  Dimension d of the code is element d + 1 of the sequence.      *)
(***************************************************************************)
BadShape == <<-1>>

IsShape(s) == s # BadShape

ShUnsqueezeDim(s, dim) ==
    IF s = BadShape \/ dim > Len(s) THEN BadShape
    ELSE SubSeq(s, 1, dim) \o <<1>> \o SubSeq(s, dim + 1, Len(s))

\* unsqueeze::<D>(): leading dimensions of size 1 up to rank D.
ShUnsqueeze(s, rank) ==
    IF s = BadShape \/ rank < Len(s) THEN BadShape
    ELSE [i \in 1..(rank - Len(s)) |-> 1] \o s

RECURSIVE ShUnsqueezeDims(_, _)
ShUnsqueezeDims(s, axes) ==
    IF axes = <<>> THEN s
    ELSE ShUnsqueezeDims(ShUnsqueezeDim(s, Head(axes)), Tail(axes))

ShRepeat(s, dim, times) ==
    IF s = BadShape \/ dim >= Len(s) THEN BadShape
    ELSE [s EXCEPT ![dim + 1] = s[dim + 1] * times]

\* reshape with at most one inferred (-1) dimension.
ShReshape(s, target) ==
    IF s = BadShape THEN BadShape
    ELSE LET known == SeqProduct([i \in 1..Len(target) |->
                          IF target[i] = -1 THEN 1 ELSE target[i]])
             total == SeqProduct(s)
         IN  IF known = 0 \/ total % known # 0 THEN BadShape
             ELSE IF \E i \in 1..Len(target) : target[i] = -1
                  THEN [i \in 1..Len(target) |->
                          IF target[i] = -1 THEN total \div known ELSE target[i]]
                  ELSE IF total = known THEN target ELSE BadShape

\* Element-wise binary operation with broadcasting of size-1 dimensions.
ShBroadcast(a, b) ==
    IF a = BadShape \/ b = BadShape \/ Len(a) # Len(b) THEN BadShape
    ELSE IF \E i \in 1..Len(a) : a[i] # b[i] /\ a[i] # 1 /\ b[i] # 1 THEN BadShape
    ELSE [i \in 1..Len(a) |-> Max(a[i], b[i])]

ShExpand(s, target) ==
    IF s = BadShape \/ target = BadShape \/ Len(s) # Len(target) THEN BadShape
    ELSE IF \E i \in 1..Len(s) : s[i] # target[i] /\ s[i] # 1 THEN BadShape
    ELSE target

ShSumDim(s, dim) ==
    IF s = BadShape \/ dim >= Len(s) THEN BadShape
    ELSE [s EXCEPT ![dim + 1] = 1]

ShSwapDims(s, a, b) ==
    IF s = BadShape \/ a >= Len(s) \/ b >= Len(s) THEN BadShape
    ELSE [s EXCEPT ![a + 1] = s[b + 1], ![b + 1] = s[a + 1]]

ShSqueeze(s, dim) ==
    IF s = BadShape \/ dim >= Len(s) THEN BadShape
    ELSE IF s[dim + 1] # 1 THEN BadShape
    ELSE SubSeq(s, 1, dim) \o SubSeq(s, dim + 2, Len(s))

\* slice(ranges): every range start..end must be non-empty and within the
\* dimension; trailing dimensions are kept whole.
ShSlice(s, ranges) ==
    IF s = BadShape \/ Len(ranges) > Len(s) THEN BadShape
    ELSE IF \E i \in 1..Len(ranges) :
                ranges[i][2] > s[i] \/ ranges[i][1] >= ranges[i][2] THEN BadShape
    ELSE [i \in 1..Len(s) |->
            IF i <= Len(ranges) THEN ranges[i][2] - ranges[i][1] ELSE s[i]]

\* cat / stack of two tensors.
ShCat(a, b, dim) ==
    IF a = BadShape \/ b = BadShape \/ Len(a) # Len(b) \/ dim >= Len(a) THEN BadShape
    ELSE IF \E i \in 1..Len(a) : i # dim + 1 /\ a[i] # b[i] THEN BadShape
    ELSE [a EXCEPT ![dim + 1] = a[dim + 1] + b[dim + 1]]

\* iter_dim(0): each yielded tensor keeps dimension 0 with size 1.
ShIterDim0(s) ==
    IF s = BadShape \/ Len(s) = 0 THEN BadShape ELSE [s EXCEPT ![1] = 1]

(***************************************************************************)
(* The dataset (src/src/dataset.rs).                                       *)
(*                                                                         *)
(* Exact numbers: a tensor of numerators with its common denominator den   *)
(*   directions   den = 2 * focal                                          *)
(*   distances    den = points_per_ray * NoiseSteps (ticks)                *)
(*   origins      integers                                                 *)
(*   positions    den = the product of the two above                       *)
(*   intervals    records [n, d], the fraction n / d                       *)
(***************************************************************************)
DistanceValues == {2, 6}

ChannelCounts == {3, 4}

Focals == {2}

Configs ==
    [points_per_ray : 0..MaxPoints,
     distance_range : [start : DistanceValues, end : DistanceValues]]

IdentityPose ==
    [rotation |-> << <<1, 0, 0>>, <<0, 1, 0>>, <<0, 0, 1>> >>,
     translation |-> <<0, 0, 0>>]

TurnedPose ==
    [rotation |-> << <<0, -1, 0>>, <<1, 0, 0>>, <<0, 0, 1>> >>,
     translation |-> <<1, 2, 3>>]

\* A readable archive: focal, images [N, H, W, C] and poses [P, 3, 4].
Archives ==
    { [focal |-> f, image_count |-> n, height |-> h, width |-> w,
       channel_count |-> c, pose_count |-> n + extra,
       poses |-> [k \in 1..(n + extra) |->
                    IF k % 2 = 1 THEN IdentityPose ELSE TurnedPose]] :
        f \in Focals, n \in 1..MaxImages, h \in 1..MaxHeight, w \in 1..MaxWidth,
        c \in ChannelCounts, extra \in {0, 1} }

Grid(h, w, p) == (0..(h - 1)) \X (0..(w - 1)) \X (0..(p - 1))

Dot(a, b) == a[1] * b[1] + a[2] * b[2] + a[3] * b[3]

\* The product with the transposed matrix.
MatVecTransposed(m, v) ==
    <<m[1][1] * v[1] + m[2][1] * v[2] + m[3][1] * v[3],
      m[1][2] * v[1] + m[2][2] * v[2] + m[3][2] * v[3],
      m[1][3] * v[1] + m[2][3] * v[2] + m[3][3] * v[3]>>

MatVec(m, v) == <<Dot(m[1], v), Dot(m[2], v), Dot(m[3], v)>>

\* The vector through the middle of the pixel, not through its corner.
PlaneVecCentred(ar, r, c) ==
    <<2 * c + 1 - ar.width, ar.height - 2 * r - 1, -2 * ar.focal>>

\* The pinhole vector of pixel (row r, column c), times 2 * focal.
PlaneVec(ar, r, c) == <<2 * c - ar.width, ar.height - 2 * r, -2 * ar.focal>>

OrderedRangeNoSwap(range) ==
    IF range.start = range.end THEN [tag |-> "Err", kind |-> "InvalidData"]
    ELSE [tag |-> "Ok", start |-> range.start, end |-> range.end]

OrderedRangeNoCheck(range) ==
    IF range.end < range.start
    THEN [tag |-> "Ok", start |-> range.end, end |-> range.start]
    ELSE [tag |-> "Ok", start |-> range.start, end |-> range.end]

OrderedRange(range) ==
    IF range.start = range.end THEN [tag |-> "Err", kind |-> "InvalidData"]
    ELSE IF range.end < range.start
    THEN [tag |-> "Ok", start |-> range.end, end |-> range.start]
    ELSE [tag |-> "Ok", start |-> range.start, end |-> range.end]

PlanesShape(h, w) ==
    LET plane_x == ShRepeat(ShUnsqueezeDim(<<w>>, 0), 0, h)
        plane_y == ShRepeat(ShUnsqueezeDim(<<h>>, 1), 1, w)
        plane_z == <<h, w>>
    IN  IF plane_x = plane_y /\ plane_y = plane_z
        THEN ShReshape(<<h, w, 3>>, <<1, h, w, 1, 3>>)
        ELSE BadShape

DirectionsShape(ar) ==
    LET n == ar.image_count
        poses == <<ar.pose_count, 3, 4>>
        rotations ==
            ShUnsqueezeDims(ShSlice(poses, <<<<0, n>>, <<0, 3>>, <<0, 3>>>>), <<1, 2>>)
    IN  ShSwapDims(
            ShSumDim(ShBroadcast(PlanesShape(ar.height, ar.width), rotations), 4),
            4, 3)

OriginsShape(ar) ==
    LET n == ar.image_count
        poses == <<ar.pose_count, 3, 4>>
    IN  ShExpand(
            ShSwapDims(
                ShUnsqueezeDims(ShSlice(poses, <<<<0, n>>, <<0, 3>>, <<3, 4>>>>),
                                <<1, 2>>),
                4, 3),
            DirectionsShape(ar))

DistancesShape(ar, points_per_ray) ==
    ShUnsqueezeDim(
        ShRepeat(
            ShRepeat(
                ShRepeat(ShUnsqueeze(<<points_per_ray>>, 4), 0, ar.image_count),
                1, ar.height),
            2, ar.width),
        4)

InnerShape(s) == ShSqueeze(ShIterDim0(s), 0)

\* The shapes of the four tensors of one SimpleNerfDatasetInner.
InnerShapes(ar, points_per_ray) ==
    [directions |-> InnerShape(ShRepeat(DirectionsShape(ar), 3, points_per_ray)),
     distances |-> InnerShape(DistancesShape(ar, points_per_ray)),
     image |-> InnerShape(<<ar.image_count, ar.height, ar.width, ar.channel_count>>),
     origins |-> InnerShape(OriginsShape(ar))]

\* One SimpleNerfDatasetInner: the precomputed tensors of image k.
Inner(ar, points_per_ray, range, shapes, k) ==
    LET h == ar.height
        w == ar.width
        pose == ar.poses[k]
    IN  [directions |->
            [shape |-> shapes.directions,
             den |-> 2 * ar.focal,
             data |-> [x \in Grid(h, w, points_per_ray) |->
                          MatVec(pose.rotation, PlaneVec(ar, x[1], x[2]))]],
         distances |->
            [shape |-> shapes.distances,
             den |-> points_per_ray * NoiseSteps,
             data |-> [x \in Grid(h, w, points_per_ray) |->
                          x[3] * (range.end - range.start) * NoiseSteps
                          + range.start * points_per_ray * NoiseSteps]],
         image |-> [shape |-> shapes.image, data |-> k],
         origins |->
            [shape |-> shapes.origins,
             data |-> [x \in Grid(h, w, 1) |-> pose.translation]]]

InvalidData == [tag |-> "Err", kind |-> "InvalidData"]

Panic == [tag |-> "panic"]

\* SimpleNerfDatasetConfig::init_from_reader on a readable archive.
InitFromReader(cfg, ar) ==
    IF cfg.points_per_ray = 0 THEN InvalidData
    ELSE LET range == OrderedRange(cfg.distance_range)
         IN  IF range.tag = "Err" THEN InvalidData
             ELSE IF ar.image_count # ar.pose_count THEN InvalidData
             ELSE IF ar.channel_count # 3 THEN InvalidData
             ELSE LET shapes == InnerShapes(ar, cfg.points_per_ray)
                  IN  IF \E f \in DOMAIN shapes : shapes[f] = BadShape
                      THEN Panic
                      ELSE [tag |-> "Ok",
                            dataset |->
                               [distance |-> (range.end - range.start) * NoiseSteps,
                                inners |-> [k \in 1..ar.image_count |->
                                              Inner(ar, cfg.points_per_ray, range,
                                                    shapes, k)],
                                has_noisy_distance |-> FALSE]]

\* <[T]>::split_at(mid) panics when mid > len.
SplitAt(s, mid) ==
    IF mid > Len(s) THEN Panic
    ELSE [tag |-> "Ok", left |-> SubSeq(s, 1, mid), right |-> SubSeq(s, mid + 1, Len(s))]

\* SimpleNerfDataset::split_for_training.
SplitForTraining(d, ratio) ==
    LET parts == SplitAt(d.inners, SplitIndex(ratio, Len(d.inners)))
    IN  IF parts.tag = "panic" THEN Panic
        ELSE [tag |-> "Ok",
              test |-> [distance |-> d.distance,
                        inners |-> parts.right,
                        has_noisy_distance |-> FALSE],
              train |-> [distance |-> d.distance,
                         inners |-> parts.left,
                         has_noisy_distance |-> TRUE]]

\* Dataset::len.
DatasetLen(d) == Len(d.inners)

\* The interval length given to the last sample of every ray.
LastInterval == 1000000000

\* The draws of Distribution::Uniform(0, distance) kept by the model: the
\* lowest and the highest of NoiseSteps evenly spaced levels in [0, distance).
NoiseLevels == {0, NoiseSteps - 1}

RayNoises(p) == [0..(p - 1) -> NoiseLevels]

\* The rays at which a returned item is observed.
ObservedRays(h, w) == {<<0, 0>>, <<h - 1, w - 1>>}

IntervalsShape(distances_shape) ==
    LET height == distances_shape[1]
        width == distances_shape[2]
        points_per_ray == distances_shape[3]
    IN  ShCat(
            ShBroadcast(
                ShSlice(distances_shape,
                        <<<<0, height>>, <<0, width>>, <<1, points_per_ray>>>>),
                ShSlice(distances_shape,
                        <<<<0, height>>, <<0, width>>, <<0, points_per_ray - 1>>>>)),
            <<height, width, 1, 1>>,
            2)

None == [tag |-> "None"]

\* No call made yet.
NoCall == [tag |-> "none"]

\* Distances with noise drawn from three spacings, not one.
GetDistancesWide(d, inner, r, c, noise) ==
    [i \in 0..(inner.distances.shape[3] - 1) |->
        inner.distances.data[<<r, c, i>>]
        + (IF d.has_noisy_distance
           THEN noise[i] * ((3 * d.distance) \div NoiseSteps) ELSE 0)]

\* The distances of ray (r, c) that one call of get works with.
GetDistances(d, inner, r, c, noise) ==
    [i \in 0..(inner.distances.shape[3] - 1) |->
        inner.distances.data[<<r, c, i>>]
        + (IF d.has_noisy_distance
           THEN noise[i] * (d.distance \div NoiseSteps) ELSE 0)]

\* A get whose intervals are those of the stored distances.
GetStoredIntervals(d, index, r, c, noise) ==
    IF index >= Len(d.inners) THEN None
    ELSE LET inner == d.inners[index + 1]
             p == inner.distances.shape[3]
             distances == GetDistances(d, inner, r, c, noise)
             intervals_shape == IntervalsShape(inner.distances.shape)
             positions_shape ==
                 ShBroadcast(inner.origins.shape,
                             ShBroadcast(inner.directions.shape, inner.distances.shape))
             den == inner.directions.den * inner.distances.den
         IN  IF intervals_shape = BadShape \/ positions_shape = BadShape THEN Panic
             ELSE [tag |-> "Some",
                   directions |->
                      [shape |-> inner.directions.shape,
                       den |-> inner.directions.den,
                       data |-> [i \in 0..(p - 1) |-> inner.directions.data[<<r, c, i>>]]],
                   image |-> inner.image,
                   intervals |->
                      [shape |-> intervals_shape,
                       data |-> [i \in 0..(p - 1) |->
                                   IF i < p - 1
                                   THEN [n |-> inner.distances.data[<<r, c, i + 1>>]
                                                 - inner.distances.data[<<r, c, i>>],
                                         d |-> inner.distances.den]
                                   ELSE [n |-> LastInterval, d |-> 1]]],
                   positions |->
                      [shape |-> positions_shape,
                       den |-> den,
                       data |-> [i \in 0..(p - 1) |->
                                   LET o == inner.origins.data[<<r, c, 0>>]
                                       v == inner.directions.data[<<r, c, i>>]
                                   IN  [j \in 1..3 |->
                                          o[j] * den + v[j] * distances[i]]]]]

\* A get that keeps the distances it drew.
DatasetAfterGetJittered(d, index, r, c, noise) ==
    IF index >= Len(d.inners) THEN d
    ELSE [d EXCEPT !.inners[index + 1].distances.data =
             [x \in DOMAIN @ |->
                 IF x[1] = r /\ x[2] = c
                 THEN GetDistances(d, d.inners[index + 1], r, c, noise)[x[3]]
                 ELSE @[x]]]

\* The dataset after get(&self, index): get works on a clone of the inner.
DatasetAfterGet(d, index, r, c, noise) == d

\* Dataset::get(index), observed at ray (r, c); noise is the draw of that ray.
Get(d, index, r, c, noise) ==
    IF index >= Len(d.inners) THEN None
    ELSE LET inner == d.inners[index + 1]
             p == inner.distances.shape[3]
             distances == GetDistances(d, inner, r, c, noise)
             intervals_shape == IntervalsShape(inner.distances.shape)
             positions_shape ==
                 ShBroadcast(inner.origins.shape,
                             ShBroadcast(inner.directions.shape, inner.distances.shape))
             den == inner.directions.den * inner.distances.den
         IN  IF intervals_shape = BadShape \/ positions_shape = BadShape THEN Panic
             ELSE [tag |-> "Some",
                   directions |->
                      [shape |-> inner.directions.shape,
                       den |-> inner.directions.den,
                       data |-> [i \in 0..(p - 1) |-> inner.directions.data[<<r, c, i>>]]],
                   image |-> inner.image,
                   intervals |->
                      [shape |-> intervals_shape,
                       data |-> [i \in 0..(p - 1) |->
                                   IF i < p - 1
                                   THEN [n |-> distances[i + 1] - distances[i],
                                         d |-> inner.distances.den]
                                   ELSE [n |-> LastInterval, d |-> 1]]],
                   positions |->
                      [shape |-> positions_shape,
                       den |-> den,
                       data |-> [i \in 0..(p - 1) |->
                                   LET o == inner.origins.data[<<r, c, 0>>]
                                       v == inner.directions.data[<<r, c, i>>]
                                   IN  [j \in 1..3 |->
                                          o[j] * den + v[j] * distances[i]]]]]

(***************************************************************************)
(* The positional encoder (encoder.rs).  A feature is kept symbolically:   *)
(* the coordinate itself, or the sine of the coordinate times a frequency  *)
(* (in units of pi) plus a phase (in units of pi / 2).                     *)
(***************************************************************************)
EncoderError == [tag |-> "Err", kind |-> "Encoder"]

\* PositionalEncoderConfig::init
PositionalEncoderInit(cfg) ==
    LET encoding_factor == cfg.encoding_factor
        shape == <<1, 2 * encoding_factor, 1>>
        freqs_shape ==
            ShReshape(ShRepeat(ShUnsqueezeDim(<<encoding_factor>>, 1), 1, 2), shape)
        phases_shape ==
            ShReshape(ShRepeat(ShUnsqueezeDim(<<2>>, 0), 0, encoding_factor), shape)
    IN  IF encoding_factor = 0 THEN EncoderError
        ELSE IF freqs_shape = BadShape \/ phases_shape = BadShape THEN Panic
        ELSE [tag |-> "Ok",
              encoder |->
                 [freqs |-> [shape |-> freqs_shape,
                             data |-> [j \in 0..(2 * encoding_factor - 1) |->
                                         2 ^ (j \div 2)]],
                  phases |-> [shape |-> phases_shape,
                              data |-> [j \in 0..(2 * encoding_factor - 1) |->
                                          j % 2]]]]

\* PositionalEncoderConfig::get_output_size
GetOutputSize(cfg, input_size) == input_size * (2 * cfg.encoding_factor + 1)

\* The features without the coordinates themselves.
EncoderForwardNoInput(encoder, coordinates_shape) ==
    LET coordinates == ShUnsqueezeDim(coordinates_shape, 1)
        waves == ShBroadcast(ShBroadcast(coordinates, encoder.freqs.shape),
                             encoder.phases.shape)
        features == ShReshape(waves, <<coordinates[1], -1>>)
    IN  IF features = BadShape THEN Panic
        ELSE [tag |-> "Ok", shape |-> features,
              row |-> [q \in 1..(waves[2] * waves[3]) |->
                         [kind |-> "sin",
                          freq |-> encoder.freqs.data[(q - 1) \div waves[3]],
                          phase |-> encoder.phases.data[(q - 1) \div waves[3]],
                          channel |-> (q - 1) % waves[3]]]]

\* PositionalEncoder::forward on coordinates of the given shape: the shape of
\* the features and the features of one row, in their (row-major) order.
EncoderForward(encoder, coordinates_shape) ==
    LET coordinates == ShUnsqueezeDim(coordinates_shape, 1)
        waves == ShBroadcast(ShBroadcast(coordinates, encoder.freqs.shape),
                             encoder.phases.shape)
        joined == ShCat(coordinates, waves, 1)
        features == ShReshape(joined, <<coordinates[1], -1>>)
    IN  IF features = BadShape THEN Panic
        ELSE [tag |-> "Ok", shape |-> features,
              row |-> [q \in 1..(joined[2] * joined[3]) |->
                         LET j == (q - 1) \div joined[3]
                             channel == (q - 1) % joined[3]
                         IN  IF j = 0
                             THEN [kind |-> "x", freq |-> 0, phase |-> 0,
                                   channel |-> channel]
                             ELSE [kind |-> "sin",
                                   freq |-> encoder.freqs.data[j - 1],
                                   phase |-> encoder.phases.data[j - 1],
                                   channel |-> channel]]]

(***************************************************************************)
(* Numbers of the renderer.  Arithmetic is exact.  The code's 1e-9 is kept *)
(* as the indeterminate Eps, so a number is a polynomial in Eps with       *)
(* dyadic coefficients: c[1] + c[2] * Eps + ... over 2 ^ e, in lowest      *)
(* terms.                                                                  *)
(***************************************************************************)
RECURSIVE NumTrim(_)
NumTrim(c) ==
    IF c = <<>> THEN <<>>
    ELSE IF c[Len(c)] = 0 THEN NumTrim(SubSeq(c, 1, Len(c) - 1))
    ELSE c

RECURSIVE NumReduce(_, _)
NumReduce(e, c) ==
    IF c = <<>> THEN [e |-> 0, c |-> <<>>]
    ELSE IF e > 0 /\ \A j \in 1..Len(c) : c[j] % 2 = 0
    THEN NumReduce(e - 1, [j \in 1..Len(c) |-> c[j] \div 2])
    ELSE [e |-> e, c |-> c]

Num(e, c) == NumReduce(e, NumTrim(c))

NumInt(n) == Num(0, <<n>>)

\* n / 2 ^ e
NumDyadic(n, e) == Num(e, <<n>>)

Eps == Num(0, <<0, 1>>)

NumCoeff(c, j) == IF j >= 1 /\ j <= Len(c) THEN c[j] ELSE 0

NumAdd(a, b) ==
    LET e == Max(a.e, b.e)
    IN  Num(e, [j \in 1..Max(Len(a.c), Len(b.c)) |->
                  NumCoeff(a.c, j) * 2 ^ (e - a.e) + NumCoeff(b.c, j) * 2 ^ (e - b.e)])

NumNeg(a) == [e |-> a.e, c |-> [j \in 1..Len(a.c) |-> 0 - a.c[j]]]

RECURSIVE NumConv(_, _, _, _)
NumConv(a, b, k, j) ==
    IF j > Len(a) THEN 0
    ELSE a[j] * NumCoeff(b, k + 1 - j) + NumConv(a, b, k, j + 1)

NumMul(a, b) ==
    IF a.c = <<>> \/ b.c = <<>> THEN NumInt(0)
    ELSE Num(a.e + b.e,
             [k \in 1..(Len(a.c) + Len(b.c) - 1) |-> NumConv(a.c, b.c, k, 1)])

RECURSIVE NumSum(_)
NumSum(s) == IF s = <<>> THEN NumInt(0) ELSE NumAdd(Head(s), NumSum(Tail(s)))

(***************************************************************************)
(* The scene network (volumetric_scene/mod.rs), whose forward returns the  *)
(* [samples, 4] tensor that the renderer concatenates and slices.          *)
(***************************************************************************)
Linear(d_input, d_output) == [d_input |-> d_input, d_output |-> d_output]

\* The trained parameters are one of a few networks; see SceneValue.
Nets == 0..3

\* VolumetricSceneConfig::init
VolumetricSceneInit(cfg, net) ==
    LET i == GetOutputSize(cfg.input_encoder, 6)
        h == cfg.hidden_size
        o == 4
        input_encoder == PositionalEncoderInit(cfg.input_encoder)
    IN  IF input_encoder.tag # "Ok" THEN input_encoder
        ELSE [tag |-> "Ok",
              scene |->
                 [input_encoder |-> input_encoder.encoder,
                  hidden_layers |->
                     <<Linear(i, h), Linear(h, h), Linear(h, h), Linear(h, h),
                       Linear(h, h), Linear(h + i, h), Linear(h, h), Linear(h, h)>>,
                  output_layer |-> Linear(h, o),
                  skip_indexs |-> {5},
                  net |-> net]]

\* nn::Linear::forward on a [rows, width] tensor
LinearShape(layer, s) ==
    IF s = BadShape \/ s[2] # layer.d_input THEN BadShape
    ELSE <<s[1], layer.d_output>>

RECURSIVE HiddenShape(_, _, _, _)
HiddenShape(scene, inputs, outputs, index) ==
    IF index >= Len(scene.hidden_layers) THEN outputs
    ELSE HiddenShape(scene, inputs,
             LinearShape(scene.hidden_layers[index + 1],
                         IF index \in scene.skip_indexs
                         THEN ShCat(outputs, inputs, 1) ELSE outputs),
             index + 1)

\* The shape VolumetricScene::forward returns for `size` samples.
SceneShape(scene, size) ==
    LET encoded == EncoderForward(scene.input_encoder,
                                  ShCat(<<size, 3>>, <<size, 3>>, 1))
        inputs == IF encoded.tag = "Ok" THEN encoded.shape ELSE BadShape
        outputs == LinearShape(scene.output_layer,
                               HiddenShape(scene, inputs, inputs, 0))
    IN  ShCat(ShSlice(outputs, <<<<0, size>>, <<0, 3>>>>),
              ShSlice(outputs, <<<<0, size>>, <<3, 4>>>>), 1)

\* A network whose colour head has no sigmoid.
SceneValueNoSigmoid(net, sample) ==
    [color |-> <<sample + net, (2 * sample + net + 1) % 3, 2 - (net % 3)>>,
     density |-> IF net = 3 THEN (2 * (sample \div 4)) % 3
                 ELSE (sample + 2 * net) % 3]

\* The row the network returns for one sample: a colour (sigmoid head; the
\* three channels in halves) and a density (ReLU head; in units of ln 2 per
\* unit length).  The sample stands for its direction and position; the row
\* depends on nothing else.  Networks 0 to 2 change density from each sample
\* to the next; network 3 is empty space up to sample 3 and dense after it.
SceneValue(net, sample) ==
    [color |-> <<(sample + net) % 3, (2 * sample + net + 1) % 3, 2 - (net % 3)>>,
     density |-> IF net = 3 THEN (2 * (sample \div 4)) % 3
                 ELSE (sample + 2 * net) % 3]

(***************************************************************************)
(* The volume renderer (renderer/mod.rs).  A tensor over the sample grid   *)
(* is a record of its shape and of its values, a function of <<row,        *)
(* column, sample>>.                                                       *)
(***************************************************************************)
RendererError == [tag |-> "Err", kind |-> "Renderer"]

\* An init whose layer 5 is declared without the width of the encoded input.
SceneInitNarrowSkip(cfg, net) ==
    LET i == GetOutputSize(cfg.input_encoder, 6)
        h == cfg.hidden_size
        input_encoder == PositionalEncoderInit(cfg.input_encoder)
    IN  IF input_encoder.tag # "Ok" THEN input_encoder
        ELSE [tag |-> "Ok",
              scene |->
                 [input_encoder |-> input_encoder.encoder,
                  hidden_layers |->
                     <<Linear(i, h), Linear(h, h), Linear(h, h), Linear(h, h),
                       Linear(h, h), Linear(h, h), Linear(h, h), Linear(h, h)>>,
                  output_layer_colors |-> Linear(h, 3),
                  output_layer_opacities |-> Linear(h, 1),
                  skip_indexs |-> {5},
                  net |-> net]]

\* VolumetricSceneConfig::init of scene/mod.rs, which has one output layer
\* for the colours and one for the opacities.
SceneInit(cfg, net) ==
    LET i == GetOutputSize(cfg.input_encoder, 6)
        h == cfg.hidden_size
        input_encoder == PositionalEncoderInit(cfg.input_encoder)
    IN  IF input_encoder.tag # "Ok" THEN input_encoder
        ELSE [tag |-> "Ok",
              scene |->
                 [input_encoder |-> input_encoder.encoder,
                  hidden_layers |->
                     <<Linear(i, h), Linear(h, h), Linear(h, h), Linear(h, h),
                       Linear(h, h), Linear(h + i, h), Linear(h, h), Linear(h, h)>>,
                  output_layer_colors |-> Linear(h, 3),
                  output_layer_opacities |-> Linear(h, 1),
                  skip_indexs |-> {5},
                  net |-> net]]

\* The widths of the features the hidden layers of forward are fed, layer by
\* layer, whether or not they fit.
RECURSIVE FedWidths(_, _, _, _)
FedWidths(scene, inputs, width, index) ==
    IF index >= Len(scene.hidden_layers) THEN <<>>
    ELSE <<(IF index \in scene.skip_indexs THEN width + inputs ELSE width)>>
            \o FedWidths(scene, inputs, scene.hidden_layers[index + 1].d_output,
                         index + 1)

\* VolumetricScene::forward of scene/mod.rs on `size` samples: the shapes of
\* the two tensors of VolumetricSceneOutput.
SceneForward(scene, size) ==
    LET encoded == EncoderForward(scene.input_encoder,
                                  ShCat(<<size, 3>>, <<size, 3>>, 1))
        inputs == IF encoded.tag = "Ok" THEN encoded.shape ELSE BadShape
        features == HiddenShape(scene, inputs, inputs, 0)
        colors == LinearShape(scene.output_layer_colors, features)
        opacities == LinearShape(scene.output_layer_opacities, features)
    IN  IF colors = BadShape \/ opacities = BadShape THEN Panic
        ELSE [tag |-> "Ok", colors |-> colors, opacities |-> opacities,
              fed |-> FedWidths(scene, inputs[2], inputs[2], 0)]

\* VolumetricScene::forward of volumetric_scene/mod.rs on `size` samples.
VolumetricSceneForward(scene, size) ==
    IF SceneShape(scene, size) = BadShape THEN Panic
    ELSE [tag |-> "Ok", outputs |-> SceneShape(scene, size)]

\* The two VolumetricScene structs of the sources.
AnySceneInit(file, cfg, net) ==
    IF file = "scene/mod.rs" THEN SceneInit(cfg, net)
    ELSE VolumetricSceneInit(cfg, net)

AnySceneForward(scene, size) ==
    IF "output_layer" \in DOMAIN scene THEN VolumetricSceneForward(scene, size)
    ELSE SceneForward(scene, size)

\* An init that takes rays_per_chunk = 0 for 1.
VolumeRendererInitCoerced(cfg, net) ==
    IF cfg.points_per_ray = 0 THEN RendererError
    ELSE LET scene == VolumetricSceneInit(cfg.scene, net)
         IN  IF scene.tag # "Ok" THEN scene
             ELSE [tag |-> "Ok",
                   renderer |->
                      [chunk_size |-> cfg.points_per_ray * Max(cfg.rays_per_chunk, 1),
                       scene |-> scene.scene]]

\* VolumeRendererConfig::init
VolumeRendererInit(cfg, net) ==
    IF cfg.points_per_ray = 0 THEN RendererError
    ELSE IF cfg.rays_per_chunk = 0 THEN RendererError
    ELSE LET scene == VolumetricSceneInit(cfg.scene, net)
         IN  IF scene.tag # "Ok" THEN scene
             ELSE [tag |-> "Ok",
                   renderer |->
                      [chunk_size |-> cfg.points_per_ray * cfg.rays_per_chunk,
                       scene |-> scene.scene]]

\* (a as f32 / b as f32).round() as usize, for the small a and b > 0 met here
RoundDiv(a, b) == (2 * a + b) \div (2 * b)

\* Tensor::chunk(chunks, 0) of a tensor with `size` rows, as the narrow calls
\* it makes.
ChunkParts(size, chunks) ==
    IF size < chunks
    THEN [k \in 1..size |-> [start |-> k - 1, length |-> 1]]
    ELSE IF size % chunks = 0
    THEN [k \in 1..chunks |->
            [start |-> (k - 1) * (size \div chunks), length |-> size \div chunks]]
    ELSE LET chunk_size == (size \div chunks) + 1
         IN  [k \in 1..chunks |->
                [start |-> (k - 1) * chunk_size,
                 length |-> IF k < chunks THEN chunk_size ELSE size % chunk_size]]

Chunk(size, chunks) ==
    IF size >= chunks /\ chunks = 0 THEN Panic
    ELSE LET parts == ChunkParts(size, chunks)
         IN  IF \E k \in 1..Len(parts) :
                   \/ parts[k].length = 0
                   \/ parts[k].start + parts[k].length > size
             THEN Panic
             ELSE [tag |-> "Ok", parts |-> parts]

\* Tensor::cat(tensors, 0)
RECURSIVE ShCatAll(_)
ShCatAll(shapes) ==
    IF shapes = <<>> THEN BadShape
    ELSE IF Len(shapes) = 1 THEN Head(shapes)
    ELSE ShCat(Head(shapes), ShCatAll(Tail(shapes)), 0)

\* slice_assign(ranges, values): values must have the shape of the slice.
ShSliceAssign(s, ranges, values) ==
    IF ShSlice(s, ranges) = BadShape \/ values # ShSlice(s, ranges) THEN BadShape
    ELSE s

\* The samples the scene network is given, in the order of its concatenated
\* outputs.
RECURSIVE ChunkSamples(_)
ChunkSamples(parts) ==
    IF parts = <<>> THEN <<>>
    ELSE [j \in 1..Head(parts).length |-> Head(parts).start + j - 1]
            \o ChunkSamples(Tail(parts))

\* f32 exp(-x) is 0.0 for every x above this.
ExpUnderflow == 149

\* exp(+(density * interval)) in place of exp(-(density * interval))
TranslucencyGrowing(density, interval) ==
    IF density * interval > ExpUnderflow THEN NumInt(0)
    ELSE NumInt(2 ^ (density * interval))

\* exp(-(density * interval)), with densities in units of ln 2
Translucency(density, interval) ==
    IF density * interval > ExpUnderflow THEN NumInt(0)
    ELSE NumDyadic(1, density * interval)

\* The loop over index of cumulative_translucency.
RECURSIVE CumulativeLoop(_, _, _, _, _)
CumulativeLoop(product, height, width, points_per_ray, index) ==
    IF product.shape = BadShape \/ index >= points_per_ray THEN product
    ELSE LET before == ShSlice(product.shape,
                          <<<<0, height>>, <<0, width>>, <<index - 1, index>>>>)
             at == ShSlice(product.shape,
                      <<<<0, height>>, <<0, height>>, <<index, index + 1>>>>)
             assigned == ShSliceAssign(product.shape,
                            <<<<0, height>>, <<0, width>>, <<index, index + 1>>>>,
                            ShBroadcast(before, at))
         IN  CumulativeLoop(
                IF assigned = BadShape
                THEN [shape |-> BadShape, data |-> product.data]
                ELSE [shape |-> assigned,
                      data |-> [g \in DOMAIN product.data |->
                                  IF g[3] = index
                                  THEN NumMul(
                                          product.data[<<g[1], g[2], index - 1>>],
                                          product.data[<<g[1],
                                                         IF at[2] = 1 THEN 0 ELSE g[2],
                                                         index>>])
                                  ELSE product.data[g]]],
                height, width, points_per_ray, index + 1)

\* The inputs of forward: directions and positions of shape [height, width,
\* points_per_ray, 3] and intervals of shape [height, width, points_per_ray,
\* 1]; sample (r, c, i) carries the direction and position numbered
\* Flat(r, c, i), and interval i of every ray is intervals[i].
Flat(input, g) == (g[1] * input.width + g[2]) * input.points_per_ray + g[3]

DirectionsDims(input) == <<input.height, input.width, input.points_per_ray, 3>>

IntervalsDims(input) == <<input.height, input.width, input.points_per_ray, 1>>

\* colors and densities of forward, from the concatenated scene outputs.
ScenePair(input, net, samples, scene_outputs) ==
    [colors |->
        [shape |-> ShReshape(ShSlice(scene_outputs,
                                     <<<<0, scene_outputs[1]>>, <<0, 3>>>>),
                             <<input.height, input.width, input.points_per_ray, 3>>),
         data |-> [g \in Grid(input.height, input.width, input.points_per_ray) |->
                     SceneValue(net, samples[Flat(input, g) + 1]).color]],
     densities |->
        [shape |-> ShReshape(ShSlice(scene_outputs,
                                     <<<<0, scene_outputs[1]>>, <<3, 4>>>>),
                             <<input.height, input.width, input.points_per_ray, 1>>),
         data |-> [g \in Grid(input.height, input.width, input.points_per_ray) |->
                     SceneValue(net, samples[Flat(input, g) + 1]).density]]]

\* The chunked calls of the scene network.
SceneOutputs(renderer, input, parts) ==
    ScenePair(input, renderer.scene.net, ChunkSamples(parts),
              ShCatAll([k \in 1..Len(parts) |->
                          SceneShape(renderer.scene, parts[k].length)]))

\* translucency
TranslucencyOf(input, densities) ==
    [shape |-> ShBroadcast(densities.shape, IntervalsDims(input)),
     data |-> [g \in DOMAIN densities.data |->
                 Translucency(densities.data[g], input.intervals[g[3] + 1])]]

\* cumulative_translucency
CumulativeTranslucency(input, translucency) ==
    CumulativeLoop(
        [shape |-> translucency.shape,
         data |-> [g \in DOMAIN translucency.data |->
                     NumAdd(translucency.data[g], Eps)]],
        input.height, input.width, input.points_per_ray, 1)

\* transmittance
Transmittance(translucency, cumulative_translucency) ==
    [shape |-> ShBroadcast(translucency.shape, cumulative_translucency.shape),
     data |-> [g \in DOMAIN translucency.data |->
                 NumMul(NumAdd(NumNeg(translucency.data[g]), NumInt(1)),
                        cumulative_translucency.data[g])]]

\* image
ImageOf(input, colors, transmittance) ==
    [shape |-> ShSqueeze(ShSumDim(ShBroadcast(colors.shape, transmittance.shape), 2), 2),
     data |-> [px \in (0..(input.height - 1)) \X (0..(input.width - 1)) |->
                 [ch \in 1..3 |->
                    NumSum([i \in 1..input.points_per_ray |->
                       NumMul(NumDyadic(colors.data[<<px[1], px[2], i - 1>>][ch], 1),
                              transmittance.data[<<px[1], px[2], i - 1>>])])]]]

\* What forward returns, together with the tensors it computed on the way.
Rendered(parts, colors, translucency, cumulative_translucency, transmittance, image) ==
    IF image.shape = BadShape THEN Panic
    ELSE [tag |-> "Ok",
          image |-> image,
          chunks |-> parts,
          colors |-> colors.data,
          translucency |-> translucency.data,
          cumulative_translucency |-> cumulative_translucency.data,
          transmittance |-> transmittance.data]

Composite(input, parts, colors, translucency, cumulative_translucency, transmittance) ==
    Rendered(parts, colors, translucency, cumulative_translucency, transmittance,
             ImageOf(input, colors, transmittance))

Accumulate(input, parts, colors, translucency, cumulative_translucency) ==
    Composite(input, parts, colors, translucency, cumulative_translucency,
              Transmittance(translucency, cumulative_translucency))

Attenuate(input, parts, colors, translucency) ==
    Accumulate(input, parts, colors, translucency,
               CumulativeTranslucency(input, translucency))

Shade(input, parts, pair) ==
    IF pair.colors.shape = BadShape \/ pair.densities.shape = BadShape THEN Panic
    ELSE Attenuate(input, parts, pair.colors, TranslucencyOf(input, pair.densities))

Sample(renderer, input, chunks) ==
    IF chunks.tag # "Ok" THEN Panic
    ELSE Shade(input, chunks.parts, SceneOutputs(renderer, input, chunks.parts))

\* (height * width * points_per_ray) as f32 / chunk_size as f32, rounded
ChunkCount(renderer, input) ==
    RoundDiv(DirectionsDims(input)[1] * DirectionsDims(input)[2]
                * DirectionsDims(input)[3],
             renderer.chunk_size)

\* The renderer after forward(&self, ..): forward writes to no field.
RendererAfterForwardRechunked(renderer, input) ==
    [renderer EXCEPT !.chunk_size = renderer.chunk_size + input.points_per_ray]

RendererAfterForward(renderer, input) == renderer

\* VolumeRenderer::forward
RendererForward(renderer, input) ==
    Sample(renderer, input,
           Chunk(ShReshape(DirectionsDims(input), <<-1, 3>>)[1],
                 ChunkCount(renderer, input)))

(***************************************************************************)
(* The PSNR metric.  Tensor elements are exact rationals <<n, d>>.  A      *)
(* scalar is  c * ln(up) / ln(down)  with c rational and ln(up), ln(down)  *)
(* logarithms of positive rationals, kept as the exponents of the primes   *)
(* of their argument (the logarithms of the primes are independent over   *)
(* the rationals, so two such scalars are equal exactly when their normal  *)
(* forms are), or an infinity, or NaN.                                     *)
(***************************************************************************)
RECURSIVE Gcd(_, _)
Gcd(a, b) == IF b = 0 THEN Abs(a) ELSE Gcd(b, a % Abs(b))

Rat(n, d) ==
    LET g == Gcd(n, d)
        s == IF d < 0 THEN -1 ELSE 1
    IN  <<s * (n \div g), s * (d \div g)>>

RatSub(a, b) == Rat(a[1] * b[2] - b[1] * a[2], a[2] * b[2])

RatAdd(a, b) == Rat(a[1] * b[2] + b[1] * a[2], a[2] * b[2])

RatMul(a, b) == Rat(a[1] * b[1], a[2] * b[2])

RatDiv(a, b) == Rat(a[1] * b[2], a[2] * b[1])

MaxPrime == Max(10, MaxElems * MaxLevel * MaxLevel)

Primes == {p \in 2..MaxPrime : \A q \in 2..(p - 1) : p % q # 0}

RECURSIVE Multiplicity(_, _)
Multiplicity(n, p) ==
    IF n % p = 0 THEN 1 + Multiplicity(n \div p, p) ELSE 0

\* ln of the positive rational r, as the exponents of the primes of r
LnOf(r) == [p \in Primes |-> Multiplicity(r[1], p) - Multiplicity(r[2], p)]

NoLn == [on |-> FALSE, v |-> [p \in Primes |-> 0]]

Ln(v) == [on |-> TRUE, v |-> v]

RECURSIVE PrimePower(_, _, _)
PrimePower(v, ps, positive) ==
    IF ps = {} THEN 1
    ELSE LET p == CHOOSE q \in ps : TRUE
             e == IF positive THEN Max(v[p], 0) ELSE Max(-v[p], 0)
         IN  (p ^ e) * PrimePower(v, ps \ {p}, positive)

\* the sign of ln(v), from the rational it is the logarithm of
LnSign(l) ==
    IF ~l.on THEN 1
    ELSE LET n == PrimePower(l.v, Primes, TRUE)
             d == PrimePower(l.v, Primes, FALSE)
         IN  IF n > d THEN 1 ELSE IF n < d THEN -1 ELSE 0

RECURSIVE VecGcd(_, _)
VecGcd(v, ps) ==
    IF ps = {} THEN 0
    ELSE LET p == CHOOSE q \in ps : TRUE
         IN  Gcd(v[p], VecGcd(v, ps \ {p}))

\* the integer k and the vector w with v = k * w, w in lowest terms and
\* ln(w) > 0
LnUnit(l) ==
    IF ~l.on \/ LnSign(l) = 0 THEN [k |-> LnSign(l), l |-> NoLn]
    ELSE LET k == LnSign(l) * VecGcd(l.v, Primes)
         IN  [k |-> k, l |-> Ln([p \in Primes |-> l.v[p] \div k])]

NaN == [tag |-> "NaN"]

Inf(neg) == [tag |-> "Inf", neg |-> neg]

\* c * ln(up) / ln(down) in normal form
Scalar(c, up, down) ==
    LET u == LnUnit(up)
        d == LnUnit(down)
    IN  IF d.k = 0 THEN (IF c[1] = 0 \/ u.k = 0 THEN NaN
                         ELSE Inf(c[1] * u.k < 0))
        ELSE IF c[1] = 0 \/ u.k = 0
        THEN [tag |-> "Val", c |-> <<0, 1>>, up |-> NoLn, down |-> NoLn]
        ELSE IF u.l = d.l
        THEN [tag |-> "Val", c |-> Rat(c[1] * u.k, c[2] * d.k),
              up |-> NoLn, down |-> NoLn]
        ELSE [tag |-> "Val", c |-> Rat(c[1] * u.k, c[2] * d.k),
              up |-> u.l, down |-> d.l]

Number(r) == Scalar(r, NoLn, NoLn)

ScalarSign(x) ==
    IF x.tag = "Inf" THEN (IF x.neg THEN -1 ELSE 1)
    ELSE IF x.c[1] > 0 THEN 1 ELSE IF x.c[1] < 0 THEN -1 ELSE 0

\* Tensor::log of a one-element tensor
ScalarLog(x) ==
    IF x.tag = "NaN" THEN NaN
    ELSE IF x.tag = "Inf" THEN (IF x.neg THEN NaN ELSE x)
    ELSE IF x.up.on \/ x.down.on \/ x.c[1] < 0 THEN NaN
    ELSE IF x.c[1] = 0 THEN Inf(TRUE)
    ELSE Scalar(<<1, 1>>, Ln(LnOf(x.c)), NoLn)

\* x * y
ScalarMul(x, y) ==
    IF x.tag = "NaN" \/ y.tag = "NaN" THEN NaN
    ELSE IF x.tag = "Inf" \/ y.tag = "Inf"
    THEN (IF ScalarSign(x) * ScalarSign(y) = 0 THEN NaN
          ELSE Inf(ScalarSign(x) * ScalarSign(y) < 0))
    ELSE IF (x.up.on /\ y.up.on) \/ (x.down.on /\ y.down.on) THEN NaN
    ELSE Scalar(RatMul(x.c, y.c),
                IF x.up.on THEN x.up ELSE y.up,
                IF x.down.on THEN x.down ELSE y.down)

\* 1 / y
ScalarRecip(y) ==
    IF y.tag = "NaN" THEN NaN
    ELSE IF y.tag = "Inf" THEN Number(<<0, 1>>)
    ELSE IF y.c[1] = 0 THEN Inf(FALSE)
    ELSE Scalar(RatDiv(<<1, 1>>, y.c), y.down, y.up)

\* x / y
ScalarDiv(x, y) ==
    IF x.tag = "Inf" /\ y.tag = "Inf" THEN NaN
    ELSE ScalarMul(x, ScalarRecip(y))

\* -x
ScalarNeg(x) == ScalarMul(Number(<<-1, 1>>), x)

\* a subtraction that stops at zero
TensorSubClamped(a, b) ==
    [i \in 1..Len(a) |-> IF RatSub(a[i], b[i])[1] < 0 THEN <<0, 1>>
                         ELSE RatSub(a[i], b[i])]

\* logits - targets, element by element
TensorSub(a, b) == [i \in 1..Len(a) |-> RatSub(a[i], b[i])]

\* a * b, element by element
TensorMul(a, b) == [i \in 1..Len(a) |-> RatMul(a[i], b[i])]

\* powi_scalar(2)
TensorSquare(a) == [i \in 1..Len(a) |-> RatMul(a[i], a[i])]

RECURSIVE RatSum(_)
RatSum(a) == IF a = <<>> THEN <<0, 1>> ELSE RatAdd(Head(a), RatSum(Tail(a)))

\* Tensor::mean
TensorMean(a) == Number(RatDiv(RatSum(a), <<Len(a), 1>>))

\* an init whose coefficient is +10 / ln(10)
PsnrInitPositive ==
    LET ten == Number(<<10, 1>>)
    IN  [coefficient |-> ScalarDiv(ten, ScalarLog(ten))]

\* PsnrMetric::init of metric.rs
PsnrInit ==
    LET ten == Number(<<10, 1>>)
    IN  [coefficient |-> ScalarDiv(ScalarNeg(ten), ScalarLog(ten))]

\* PsnrMetric::from_mse of metric.rs
FromMse(metric, loss) == ScalarMul(ScalarLog(loss), metric.coefficient)

\* PsnrMetric::forward of metric.rs
PsnrForward(metric, logits, targets) ==
    LET error == TensorSub(logits, targets)
    IN  FromMse(metric, TensorMean(TensorMul(error, error)))

\* The metric after forward(&self, ..): forward writes to no field.
PsnrAfterForward(metric) == metric

\* PsnrMetric::init of metric/mod.rs
PsnrModInit == [log_10 |-> ScalarLog(Number(<<10, 1>>))]

\* PsnrMetric::forward of metric/mod.rs
PsnrModForward(metric, logits, targets) ==
    ScalarMul(ScalarDiv(ScalarLog(TensorMean(TensorSquare(TensorSub(logits, targets)))),
                        metric.log_10),
              Number(<<-10, 1>>))

\* The two PsnrMetric structs of the sources, told apart by their field.
MetricInit(file) ==
    IF file = "metric.rs" THEN PsnrInit ELSE PsnrModInit

MetricForward(metric, logits, targets) ==
    IF "coefficient" \in DOMAIN metric
    THEN PsnrForward(metric, logits, targets)
    ELSE PsnrModForward(metric, logits, targets)

(***************************************************************************)
(* The experiment (experiment/mod.rs, experiment/trainer.rs) and the older *)
(* trainer (trainer/mod.rs).  The file system is seen at one path, the     *)
(* artifact directory: nothing there, a plain file, or a directory with a  *)
(* set of entries <<name, origin>>, origin "old" for what was there before *)
(* the program ran and "new" for what the program wrote.                   *)
(***************************************************************************)
Absent == [kind |-> "absent", entries |-> {}]

PlainFile == [kind |-> "file", entries |-> {}]

Directory(entries) == [kind |-> "dir", entries |-> entries]

IoError == [tag |-> "Err", kind |-> "Io"]

AlreadyExists == [tag |-> "Err", kind |-> "AlreadyExists"]

NotADirectory == [tag |-> "Err", kind |-> "NotADirectory"]

\* The I/O operation that fails in a call, if any: removing, creating,
\* writing a file, or drawing the progress bar.
IoFaults == {"none", "remove", "create", "save", "bar"}

FsResult(tag, path) == [tag |-> tag, path |-> path]

\* fs::remove_dir_all
RemoveDirAll(path, fault) ==
    IF fault = "remove" \/ path.kind # "dir" THEN FsResult("Err", path)
    ELSE FsResult("Ok", Absent)

\* fs::remove_file
RemoveFile(path, fault) ==
    IF fault = "remove" \/ path.kind # "file" THEN FsResult("Err", path)
    ELSE FsResult("Ok", Absent)

\* fs::create_dir_all: a directory that exists is left as it is.
CreateDirAll(path, fault) ==
    IF fault = "create" \/ path.kind = "file" THEN FsResult("Err", path)
    ELSE IF path.kind = "dir" THEN FsResult("Ok", path)
    ELSE FsResult("Ok", Directory({}))

\* Config::save and Module::save_file: the named file is written anew.
SaveFile(path, name, fault) ==
    IF fault = "save" \/ path.kind # "dir" THEN FsResult("Err", path)
    ELSE FsResult("Ok",
                  Directory({e \in path.entries : e[1] # name} \cup {<<name, "new">>}))

\* What init returns, and the path as init leaves it.
Returned(result, path) == [result |-> result, path |-> path]

\* tqdm!(total = epoch_count, ..) with its first postfix
ProgressBar(total) == [count |-> 0, total |-> total, postfix |-> 0]

\* Ok(Experiment { tester, trainer })
Experiment(cfg, datasets, renderer) ==
    [tag |-> "Ok",
     tester |-> [dataset |-> datasets.test],
     trainer |-> [dataset |-> datasets.train,
                  epoch_count |-> cfg.epoch_count,
                  progress_bar |-> ProgressBar(cfg.epoch_count),
                  renderer |-> renderer]]

ExperimentSave(cfg, datasets, renderer, path, fault) ==
    LET saved == SaveFile(path, "experiment.json", fault)
    IN  IF saved.tag # "Ok" THEN Returned(IoError, saved.path)
        ELSE Returned(Experiment(cfg, datasets, renderer), saved.path)

ExperimentCreate(cfg, datasets, renderer, path, fault) ==
    LET made == CreateDirAll(path, fault)
    IN  IF made.tag # "Ok" THEN Returned(IoError, made.path)
        ELSE ExperimentSave(cfg, datasets, renderer, made.path, fault)

ExperimentRemove(cfg, datasets, renderer, removed, fault) ==
    IF removed.tag # "Ok" THEN Returned(IoError, removed.path)
    ELSE ExperimentCreate(cfg, datasets, renderer, removed.path, fault)

\* A preparation that clears the path whatever the flag says.
ExperimentPrepareAlways(cfg, datasets, renderer, path, clear, fault) ==
    IF path.kind = "dir"
    THEN ExperimentRemove(cfg, datasets, renderer, RemoveDirAll(path, fault), fault)
    ELSE IF path.kind # "absent"
    THEN ExperimentRemove(cfg, datasets, renderer, RemoveFile(path, fault), fault)
    ELSE ExperimentCreate(cfg, datasets, renderer, path, fault)

\* "Prepare the Directory to Save Artifacts" and what follows it
ExperimentPrepare(cfg, datasets, renderer, path, clear, fault) ==
    IF clear
    THEN IF path.kind = "dir"
         THEN ExperimentRemove(cfg, datasets, renderer, RemoveDirAll(path, fault), fault)
         ELSE IF path.kind # "absent"
         THEN ExperimentRemove(cfg, datasets, renderer, RemoveFile(path, fault), fault)
         ELSE ExperimentCreate(cfg, datasets, renderer, path, fault)
    ELSE IF path.kind = "dir" THEN Returned(AlreadyExists, path)
         ELSE IF path.kind # "absent" THEN Returned(NotADirectory, path)
         ELSE ExperimentCreate(cfg, datasets, renderer, path, fault)

ExperimentRenderer(cfg, datasets, path, clear, fault) ==
    LET renderer == VolumeRendererInit(cfg.renderer, cfg.net)
    IN  IF datasets.tag # "Ok" THEN Returned(Panic, path)
        ELSE IF renderer.tag # "Ok" THEN Returned(renderer, path)
        ELSE ExperimentPrepare(cfg, datasets, renderer.renderer, path, clear, fault)

\* An init that prepares the directory before it builds the renderer.
ExperimentInitEager(cfg, path, clear, fault) ==
    LET built == InitFromReader(cfg.dataset, cfg.archive)
        renderer == VolumeRendererInit(cfg.renderer, cfg.net)
    IN  IF built.tag # "Ok" THEN Returned(built, path)
        ELSE LET prepared ==
                     ExperimentPrepare(cfg,
                                       SplitForTraining(built.dataset, cfg.train_ratio),
                                       renderer, path, clear, fault)
             IN  IF renderer.tag # "Ok" THEN Returned(renderer, prepared.path)
                 ELSE ExperimentRenderer(cfg,
                                         SplitForTraining(built.dataset, cfg.train_ratio),
                                         path, clear, fault)

\* ExperimentConfig::init
ExperimentInit(cfg, path, clear, fault) ==
    LET built == InitFromReader(cfg.dataset, cfg.archive)
    IN  IF built.tag # "Ok" THEN Returned(built, path)
        ELSE ExperimentRenderer(cfg,
                                SplitForTraining(built.dataset, cfg.train_ratio),
                                path, clear, fault)

\* Ok(Trainer { .. }) of trainer/mod.rs
OldTrainer(cfg, datasets, renderer) ==
    [tag |-> "Ok",
     trainer |-> [dataset_test |-> datasets.test,
                  dataset_train |-> datasets.train,
                  epoch_count |-> cfg.epoch_count,
                  progress_bar |-> ProgressBar(cfg.epoch_count),
                  renderer |-> renderer]]

TrainerSave(cfg, datasets, renderer, made, fault) ==
    LET saved == SaveFile(made.path, "config.json", fault)
    IN  IF made.tag # "Ok" THEN Returned(IoError, made.path)
        ELSE IF saved.tag # "Ok" THEN Returned(IoError, saved.path)
        ELSE Returned(OldTrainer(cfg, datasets, renderer), saved.path)

\* let _ = fs::remove_dir_all(..): its error is dropped
TrainerPrepare(cfg, datasets, renderer, path, fault) ==
    TrainerSave(cfg, datasets, renderer,
                CreateDirAll(RemoveDirAll(path, fault).path, fault), fault)

TrainerRenderer(cfg, datasets, path, fault) ==
    LET renderer == VolumeRendererInit(cfg.renderer, cfg.net)
    IN  IF datasets.tag # "Ok" THEN Returned(Panic, path)
        ELSE IF renderer.tag # "Ok" THEN Returned(renderer, path)
        ELSE TrainerPrepare(cfg, datasets, renderer.renderer, path, fault)

\* TrainerConfig::init
TrainerInit(cfg, path, fault) ==
    LET built == InitFromReader(cfg.dataset, cfg.archive)
    IN  IF built.tag # "Ok" THEN Returned(built, path)
        ELSE TrainerRenderer(cfg,
                             SplitForTraining(built.dataset, cfg.train_ratio),
                             path, fault)

\* epoch % 25 == 0 of Trainer::train
ProfilePeriod == 25

\* epoch % 20 == 0 of Trainer::fit
MonitorPeriod == 20

\* transform::SamplerDataset::get(index): an item of the dataset, picked at
\* random, while index < size.
SamplerGet(d, size, index, pick, noise) ==
    IF index >= size THEN None ELSE Get(d, pick, 0, 0, noise)

\* The grid forward is given for an item: the item's shape, the interval
\* lengths of the unjittered samples in units of their spacing.
InputOf(item) ==
    [height |-> item.directions.shape[1],
     width |-> item.directions.shape[2],
     points_per_ray |-> item.directions.shape[3],
     intervals |-> [i \in 1..item.directions.shape[3] |->
                      IF i = item.directions.shape[3] THEN LastInterval ELSE 1]]

\* optimizer.step(learning_rate, renderer, gradients): the renderer with
\* the next parameters.
OptimizerStep(renderer) ==
    [renderer EXCEPT !.scene.net = (@ + 1) % Cardinality(Nets)]

\* Where a call stands after a step, and its locals.
Outcome(at, run) == [pc |-> at, run |-> run]

\* Trainer::train up to its loop
TrainBegin(trainer, noise) ==
    LET input_profile == Get(trainer.dataset, 0, 0, 0, noise)
    IN  IF input_profile.tag = "panic" THEN Outcome("panicked", NoCall)
        ELSE Outcome("loop",
                     [epoch |-> 0,
                      steps |-> <<>>,
                      input_profile |-> input_profile.tag,
                      dataset_size |-> DatasetLen(trainer.dataset),
                      progress_bar |-> [trainer.progress_bar EXCEPT !.count = 0],
                      renderer |-> trainer.renderer,
                      saved |-> <<>>,
                      result |-> NoCall])

\* progress_bar.update(1)?
TrainAdvance(run, fault) ==
    IF fault = "bar" THEN Outcome("error", [run EXCEPT !.result = IoError])
    ELSE Outcome("loop", [run EXCEPT !.progress_bar.count = @ + 1,
                                      !.epoch = @ + 1])

\* "Profiling"
TrainProfile(run, input, fault) ==
    IF run.input_profile = "Some" /\ run.epoch % ProfilePeriod = 0
    THEN IF RendererForward(run.renderer, input).tag # "Ok"
         THEN Outcome("panicked", run)
         ELSE TrainAdvance([run EXCEPT !.progress_bar.postfix = @ + 1], fault)
    ELSE TrainAdvance(run, fault)

\* forward, loss, backward and the optimizer's step
TrainStep(run, input, fault) ==
    IF RendererForward(run.renderer, input).tag # "Ok" THEN Outcome("panicked", run)
    ELSE TrainProfile([run EXCEPT !.renderer = OptimizerStep(@),
                                  !.steps = Append(@, run.epoch)],
                      input, fault)

\* One pass of the loop of Trainer::train.
TrainEpoch(trainer, run, pick, noise, fault) ==
    LET data == SamplerGet(trainer.dataset, run.dataset_size, 0, pick, noise)
    IN  IF data.tag = "panic" THEN Outcome("panicked", run)
        ELSE IF data.tag = "None" THEN Outcome("ended", run)
        ELSE TrainStep(run, InputOf(data), fault)

\* Trainer::train after its loop: the bar is closed, the renderer saved and
\* returned.
TrainEnd(run, path, fault) ==
    LET saved == SaveFile(path, "volume-renderer.mpk", fault)
    IN  IF fault = "bar"
        THEN [pc |-> "error", run |-> [run EXCEPT !.result = IoError], path |-> path]
        ELSE IF saved.tag # "Ok"
        THEN [pc |-> "error", run |-> [run EXCEPT !.result = IoError],
              path |-> saved.path]
        ELSE [pc |-> "returned",
              run |-> [run EXCEPT !.saved = Append(@, run.renderer),
                                  !.result = [tag |-> "Ok", renderer |-> run.renderer]],
              path |-> saved.path]

\* A train that writes its renderer back into the Trainer.
TrainerAfterTrainStored(trainer, run) ==
    [trainer EXCEPT !.renderer = run.renderer]

\* The Trainer after train(&self): train works on clones.
TrainerAfterTrain(trainer, run) == trainer

\* Trainer::fit up to its loop; self.renderer and self.progress_bar are
\* the renderer and the progress_bar of the locals.
FitBegin(trainer) ==
    Outcome("loop",
            [epoch |-> 0,
             steps |-> <<>>,
             input_profile |-> "None",
             dataset_size |-> DatasetLen(trainer.dataset_train),
             progress_bar |-> [trainer.progress_bar EXCEPT !.count = 0],
             renderer |-> trainer.renderer,
             saved |-> <<>>,
             result |-> NoCall])

\* "Monitoring": a missing test item goes on to the next epoch at once.
FitMonitor(trainer, run, noise, fault) ==
    LET input == Get(trainer.dataset_test, 0, 0, 0, noise)
    IN  IF run.epoch % MonitorPeriod = 0 /\ run.epoch > 0
        THEN IF input.tag = "panic" THEN Outcome("panicked", run)
             ELSE IF input.tag = "None"
             THEN Outcome("loop", [run EXCEPT !.epoch = @ + 1])
             ELSE IF RendererForward(run.renderer, InputOf(input)).tag # "Ok"
             THEN Outcome("panicked", run)
             ELSE TrainAdvance([run EXCEPT !.progress_bar.postfix = @ + 1], fault)
        ELSE TrainAdvance(run, fault)

FitStep(trainer, run, input, noise, fault) ==
    IF RendererForward(run.renderer, input).tag # "Ok" THEN Outcome("panicked", run)
    ELSE FitMonitor(trainer,
                    [run EXCEPT !.renderer = OptimizerStep(@),
                                !.steps = Append(@, run.epoch)],
                    noise, fault)

\* One pass of the loop of Trainer::fit.
FitEpoch(trainer, run, pick, noise, fault) ==
    LET input == SamplerGet(trainer.dataset_train, run.dataset_size, 0, pick, noise)
    IN  IF input.tag = "panic" THEN Outcome("panicked", run)
        ELSE IF input.tag = "None" THEN Outcome("ended", run)
        ELSE FitStep(trainer, run, InputOf(input), noise, fault)

\* "Testing": every item of the test dataset is rendered.
FitTests(trainer, run, noise) ==
    \A index \in 0..(DatasetLen(trainer.dataset_test) - 1) :
        LET input == Get(trainer.dataset_test, index, 0, 0, noise)
        IN  /\ input.tag = "Some"
            /\ RendererForward(run.renderer, InputOf(input)).tag = "Ok"

\* Trainer::fit after its loop.
FitEnd(trainer, run, path, noise, fault) ==
    LET saved == SaveFile(path, "renderer.mpk", fault)
    IN  IF fault = "bar"
        THEN [pc |-> "error", run |-> [run EXCEPT !.result = IoError], path |-> path]
        ELSE IF ~FitTests(trainer, run, noise)
        THEN [pc |-> "panicked", run |-> run, path |-> path]
        ELSE IF saved.tag # "Ok"
        THEN [pc |-> "error", run |-> [run EXCEPT !.result = IoError],
              path |-> saved.path]
        ELSE [pc |-> "returned",
              run |-> [run EXCEPT !.saved = Append(@, run.renderer),
                                  !.result = [tag |-> "Ok"]],
              path |-> saved.path]

(***************************************************************************)
(* The dataset as a state machine: a configuration and an archive are      *)
(* chosen, init_from_reader builds the dataset, and the program then       *)
(* splits it, keeps one side of a split, and reads items.                  *)
(***************************************************************************)
VARIABLES
    pc,         \* "config", "ready", "split", "failed" or "panicked"
    config,     \* the SimpleNerfDatasetConfig
    archive,    \* the contents of the .npz archive
    built,      \* what init_from_reader returned
    dataset,    \* the dataset the program holds
    role,       \* where it came from: "none", "full", "train" or "test"
    call,       \* the last split_for_training call: its receiver, ratio and result
    got,        \* the item the caller holds: the get call's index, ray and result
    got2,       \* a repeated get of the same index, observed at the same ray
    epc,        \* encoder: "idle", "config", "built", "failed", "done" or "panicked"
    econfig,    \* the PositionalEncoderConfig
    encoder,    \* what PositionalEncoderConfig::init returned
    esize,      \* the last get_output_size call: its argument and result
    einput,     \* the shape of the coordinates given to forward
    eoutput,    \* what forward returned
    rpc,        \* renderer: "idle", "config", "built", "failed", "done" or "panicked"
    rconfig,    \* the VolumeRendererConfig
    renderer,   \* what VolumeRendererConfig::init returned
    rinput,     \* the grid given to forward
    routput,    \* what forward returned, with the tensors it computed on the way
    routput2,   \* what a second forward on the same grid returned
    mpc,        \* metric: "idle", "new", "built", "scored" or "swapped"
    metric,     \* the PsnrMetric
    mlogits,    \* the first tensor given to forward
    mtargets,   \* the second tensor given to forward
    mpsnr,      \* what forward(logits, targets) returned
    mswapped,   \* what forward(targets, logits) returned
    spc,        \* scene: "idle", "config", "built", "failed", "done" or "panicked"
    sconfig,    \* the source file and the VolumetricSceneConfig
    scene,      \* what VolumetricSceneConfig::init returned
    ssize,      \* the number of samples given to forward
    soutput,    \* what forward returned
    xpc,        \* experiment: "idle", "config", "ready", "failed", "loop", "ended",
                \* "returned", "error" or "panicked"
    xconfig,    \* the source file, the ExperimentConfig or TrainerConfig, the archive
    xpath,      \* what the file system holds at artifact_directory
    xbuilt,     \* the init call: its arguments, the path before it, its result
    xrun        \* the train or fit call: its locals, its log and its result

dvars == <<pc, config, archive, built, dataset, role, call, got, got2>>

evars == <<epc, econfig, encoder, esize, einput, eoutput>>

rvars == <<rpc, rconfig, renderer, rinput, routput, routput2>>

mvars == <<mpc, metric, mlogits, mtargets, mpsnr, mswapped>>

svars == <<spc, sconfig, scene, ssize, soutput>>

xvars == <<xpc, xconfig, xpath, xbuilt, xrun>>

vars == <<dvars, evars, rvars, mvars, svars, xvars>>

NoDataset == [distance |-> 0, inners |-> <<>>, has_noisy_distance |-> FALSE]

DatasetIdle ==
    /\ pc = "idle"
    /\ config = NoCall
    /\ archive = NoCall
    /\ built = NoCall
    /\ dataset = NoDataset
    /\ role = "none"
    /\ call = NoCall
    /\ got = NoCall
    /\ got2 = NoCall

EncoderIdle ==
    /\ epc = "idle"
    /\ econfig = NoCall
    /\ encoder = NoCall
    /\ esize = NoCall
    /\ einput = NoCall
    /\ eoutput = NoCall

RendererIdle ==
    /\ rpc = "idle"
    /\ rconfig = NoCall
    /\ renderer = NoCall
    /\ rinput = NoCall
    /\ routput = NoCall
    /\ routput2 = NoCall

MetricIdle ==
    /\ mpc = "idle"
    /\ metric = NoCall
    /\ mlogits = <<>>
    /\ mtargets = <<>>
    /\ mpsnr = NoCall
    /\ mswapped = NoCall

SceneIdle ==
    /\ spc = "idle"
    /\ sconfig = NoCall
    /\ scene = NoCall
    /\ ssize = 0
    /\ soutput = NoCall

ExperimentIdle ==
    /\ xpc = "idle"
    /\ xconfig = NoCall
    /\ xpath = NoCall
    /\ xbuilt = NoCall
    /\ xrun = NoCall

DatasetInit ==
    /\ EncoderIdle
    /\ RendererIdle
    /\ pc = "config"
    /\ config \in Configs
    /\ archive \in Archives
    /\ built = NoCall
    /\ dataset = NoDataset
    /\ role = "none"
    /\ call = NoCall
    /\ got = NoCall
    /\ got2 = NoCall
    /\ MetricIdle
    /\ SceneIdle
    /\ ExperimentIdle

\* built records the Result; the dataset of an Ok moves into `dataset`.
DoInitFromReader ==
    /\ pc = "config"
    /\ LET result == InitFromReader(config, archive)
       IN  IF result.tag = "Ok"
           THEN /\ built' = [tag |-> "Ok"]
                /\ pc' = "ready"
                /\ dataset' = result.dataset
                /\ role' = "full"
           ELSE /\ built' = result
                /\ pc' = (IF result.tag = "panic" THEN "panicked" ELSE "failed")
                /\ UNCHANGED <<dataset, role>>
    /\ UNCHANGED <<config, archive, call, got, got2>>
    /\ UNCHANGED <<evars, rvars, mvars, svars, xvars>>

\* split_for_training consumes its receiver.
DoSplitForTraining ==
    /\ pc = "ready"
    /\ got = NoCall
    /\ \E ratio \in Ratios :
          call' = [tag |-> "call", parent |-> dataset, ratio |-> ratio,
                   out |-> SplitForTraining(dataset, ratio)]
    /\ pc' = (IF call'.out.tag = "panic" THEN "panicked" ELSE "split")
    /\ dataset' = NoDataset
    /\ role' = "none"
    /\ got' = NoCall
    /\ got2' = NoCall
    /\ UNCHANGED <<config, archive, built>>
    /\ UNCHANGED <<evars, rvars, mvars, svars, xvars>>

\* The program goes on with one side of the split.
DoTakeSide ==
    /\ pc = "split"
    /\ \E side \in {"train", "test"} :
          /\ dataset' = call.out[side]
          /\ role' = side
    /\ pc' = "ready"
    /\ call' = NoCall
    /\ UNCHANGED <<config, archive, built, got, got2>>
    /\ UNCHANGED <<evars, rvars, mvars, svars, xvars>>

DoGet ==
    /\ pc = "ready"
    /\ got = NoCall
    /\ \E index \in 0..(Len(dataset.inners) + 1),
          ray \in ObservedRays(archive.height, archive.width),
          noise \in RayNoises(config.points_per_ray) :
          /\ got' = [tag |-> "call", index |-> index, ray |-> ray,
                     out |-> Get(dataset, index, ray[1], ray[2], noise)]
          /\ dataset' = DatasetAfterGet(dataset, index, ray[1], ray[2], noise)
    /\ got2' = NoCall
    /\ pc' = (IF got'.out.tag = "panic" THEN "panicked" ELSE "ready")
    /\ UNCHANGED <<config, archive, built, role, call>>
    /\ UNCHANGED <<evars, rvars, mvars, svars, xvars>>

DoGetAgain ==
    /\ pc = "ready"
    /\ got.tag = "call"
    /\ got2 = NoCall
    /\ \E noise \in RayNoises(config.points_per_ray) :
          /\ got2' = [tag |-> "call", index |-> got.index, ray |-> got.ray,
                      out |-> Get(dataset, got.index, got.ray[1], got.ray[2], noise)]
          /\ dataset' = DatasetAfterGet(dataset, got.index, got.ray[1], got.ray[2],
                                        noise)
    /\ UNCHANGED <<pc, config, archive, built, role, call, got>>
    /\ UNCHANGED <<evars, rvars, mvars, svars, xvars>>

\* The caller drops the items it was given.
DoDropItems ==
    /\ pc = "ready"
    /\ got # NoCall
    /\ got' = NoCall
    /\ got2' = NoCall
    /\ UNCHANGED <<pc, config, archive, built, dataset, role, call>>
    /\ UNCHANGED <<evars, rvars, mvars, svars, xvars>>

DatasetNext ==
    \/ DoInitFromReader
    \/ DoSplitForTraining
    \/ DoTakeSide
    \/ DoGet
    \/ DoGetAgain
    \/ DoDropItems

SpecDataset == DatasetInit /\ [][DatasetNext]_vars

(***************************************************************************)
(* The encoder as a state machine: a configuration is chosen, init builds  *)
(* the encoder, forward encodes one batch of coordinates; get_output_size  *)
(* may be asked of the configuration at any time.                          *)
(***************************************************************************)
EncoderConfigs == [encoding_factor : 0..MaxEncodingFactor]

EncoderInit ==
    /\ DatasetIdle
    /\ RendererIdle
    /\ epc = "config"
    /\ econfig \in EncoderConfigs
    /\ encoder = NoCall
    /\ esize = NoCall
    /\ einput = NoCall
    /\ eoutput = NoCall
    /\ MetricIdle
    /\ SceneIdle
    /\ ExperimentIdle

DoEncoderInit ==
    /\ epc = "config"
    /\ encoder' = PositionalEncoderInit(econfig)
    /\ epc' = (IF encoder'.tag = "Ok" THEN "built"
               ELSE IF encoder'.tag = "panic" THEN "panicked" ELSE "failed")
    /\ UNCHANGED <<econfig, esize, einput, eoutput>>
    /\ UNCHANGED <<dvars, rvars, mvars, svars, xvars>>

DoGetOutputSize ==
    /\ epc # "idle"
    /\ \E input_size \in 1..MaxInputSize :
          esize' = [tag |-> "call", input_size |-> input_size,
                    out |-> GetOutputSize(econfig, input_size)]
    /\ UNCHANGED <<epc, econfig, encoder, einput, eoutput>>
    /\ UNCHANGED <<dvars, rvars, mvars, svars, xvars>>

DoEncoderForward ==
    /\ epc = "built"
    /\ \E rows \in 1..MaxRows, input_size \in 1..MaxInputSize :
          /\ einput' = <<rows, input_size>>
          /\ eoutput' = EncoderForward(encoder.encoder, <<rows, input_size>>)
    /\ epc' = (IF eoutput'.tag = "Ok" THEN "done" ELSE "panicked")
    /\ UNCHANGED <<econfig, encoder, esize>>
    /\ UNCHANGED <<dvars, rvars, mvars, svars, xvars>>

EncoderNext ==
    \/ DoEncoderInit
    \/ DoGetOutputSize
    \/ DoEncoderForward

SpecEncoder == EncoderInit /\ [][EncoderNext]_vars

(***************************************************************************)
(* The renderer as a state machine: a configuration is chosen, init builds *)
(* the renderer around a scene network, forward renders one grid.          *)
(***************************************************************************)
RendererConfigs ==
    [points_per_ray : 0..MaxPoints,
     rays_per_chunk : 0..MaxRaysPerChunk,
     scene : [hidden_size : 1..MaxHiddenSize,
              input_encoder : [encoding_factor : 0..MaxSceneFactor]]]

\* Interval lengths: 1 between samples; the last one 1 or, as in the items of
\* the dataset, LastInterval.
Inputs ==
    {[height |-> h, width |-> w, points_per_ray |-> p,
      intervals |-> [i \in 1..p |-> IF i = p THEN last ELSE 1]] :
        h \in 1..MaxHeight, w \in 1..MaxWidth, p \in 1..MaxSamples,
        last \in {1, LastInterval}}

RendererInit ==
    /\ DatasetIdle
    /\ EncoderIdle
    /\ rpc = "config"
    /\ rconfig \in RendererConfigs
    /\ renderer = NoCall
    /\ rinput = NoCall
    /\ routput = NoCall
    /\ routput2 = NoCall
    /\ MetricIdle
    /\ SceneIdle
    /\ ExperimentIdle

DoRendererInit ==
    /\ rpc = "config"
    /\ \E net \in Nets : renderer' = VolumeRendererInit(rconfig, net)
    /\ rpc' = (IF renderer'.tag = "Ok" THEN "built" ELSE "failed")
    /\ UNCHANGED <<rconfig, rinput, routput, routput2>>
    /\ UNCHANGED <<dvars, evars, mvars, svars, xvars>>

DoRendererForward ==
    /\ rpc = "built"
    /\ \E input \in Inputs :
          /\ rinput' = input
          /\ routput' = RendererForward(renderer.renderer, input)
          /\ renderer' = [renderer EXCEPT
                             !.renderer = RendererAfterForward(renderer.renderer, input)]
    /\ rpc' = (IF routput'.tag = "Ok" THEN "done" ELSE "panicked")
    /\ UNCHANGED <<rconfig, routput2>>
    /\ UNCHANGED <<dvars, evars, mvars, svars, xvars>>

\* forward once more, on the same renderer and the same grid
DoRendererForwardAgain ==
    /\ rpc = "done"
    /\ routput2 = NoCall
    /\ routput2' = RendererForward(renderer.renderer, rinput)
    /\ renderer' = [renderer EXCEPT
                       !.renderer = RendererAfterForward(renderer.renderer, rinput)]
    /\ rpc' = (IF routput2'.tag = "Ok" THEN "done" ELSE "panicked")
    /\ UNCHANGED <<rconfig, rinput, routput>>
    /\ UNCHANGED <<dvars, evars, mvars, svars, xvars>>

RendererNext ==
    \/ DoRendererInit
    \/ DoRendererForward
    \/ DoRendererForwardAgain

SpecRenderer == RendererInit /\ [][RendererNext]_vars

(***************************************************************************)
(* The metric as a state machine: one of the two PsnrMetric structs is     *)
(* built, forward scores a pair of equal-shape tensors, and forward is     *)
(* then called with the two tensors exchanged.                             *)
(***************************************************************************)
Levels == {Rat(l, MaxLevel) : l \in 0..MaxLevel}

Tensors(n) == [1..n -> Levels]

MetricStart ==
    /\ DatasetIdle
    /\ EncoderIdle
    /\ RendererIdle
    /\ SceneIdle
    /\ ExperimentIdle
    /\ mpc = "new"
    /\ metric = NoCall
    /\ mlogits = <<>>
    /\ mtargets = <<>>
    /\ mpsnr = NoCall
    /\ mswapped = NoCall

DoPsnrInit ==
    /\ mpc = "new"
    /\ \E file \in {"metric.rs", "metric/mod.rs"} : metric' = MetricInit(file)
    /\ mpc' = "built"
    /\ UNCHANGED <<mlogits, mtargets, mpsnr, mswapped>>
    /\ UNCHANGED <<dvars, evars, rvars, svars, xvars>>

DoPsnrForward ==
    /\ mpc = "built"
    /\ \E n \in 1..MaxElems :
          \E logits \in Tensors(n), targets \in Tensors(n) :
              /\ mlogits' = logits
              /\ mtargets' = targets
              /\ mpsnr' = MetricForward(metric, logits, targets)
    /\ metric' = PsnrAfterForward(metric)
    /\ mpc' = "scored"
    /\ UNCHANGED mswapped
    /\ UNCHANGED <<dvars, evars, rvars, svars, xvars>>

DoPsnrForwardSwapped ==
    /\ mpc = "scored"
    /\ mswapped' = MetricForward(metric, mtargets, mlogits)
    /\ metric' = PsnrAfterForward(metric)
    /\ mpc' = "swapped"
    /\ UNCHANGED <<mlogits, mtargets, mpsnr>>
    /\ UNCHANGED <<dvars, evars, rvars, svars, xvars>>

MetricNext ==
    \/ DoPsnrInit
    \/ DoPsnrForward
    \/ DoPsnrForwardSwapped

SpecMetric == MetricStart /\ [][MetricNext]_vars

(***************************************************************************)
(* The scene network as a state machine: a configuration is chosen for one *)
(* of the two VolumetricScene structs, init builds the network and forward *)
(* is given a number of samples.                                           *)
(***************************************************************************)
SceneConfigs ==
    {[file |-> f,
      config |-> [hidden_size |-> h, input_encoder |-> [encoding_factor |-> l]]] :
        f \in {"scene/mod.rs", "volumetric_scene/mod.rs"},
        h \in 1..MaxHiddenSize, l \in 0..MaxEncodingFactor}

SceneStart ==
    /\ DatasetIdle
    /\ EncoderIdle
    /\ RendererIdle
    /\ MetricIdle
    /\ ExperimentIdle
    /\ spc = "config"
    /\ sconfig \in SceneConfigs
    /\ scene = NoCall
    /\ ssize = 0
    /\ soutput = NoCall

DoSceneInit ==
    /\ spc = "config"
    /\ \E net \in Nets : scene' = AnySceneInit(sconfig.file, sconfig.config, net)
    /\ spc' = (IF scene'.tag = "Ok" THEN "built" ELSE "failed")
    /\ UNCHANGED <<sconfig, ssize, soutput>>
    /\ UNCHANGED <<dvars, evars, rvars, mvars, xvars>>

DoSceneForward ==
    /\ spc \in {"built", "done"}
    /\ \E size \in 1..MaxSceneRows :
          /\ ssize' = size
          /\ soutput' = AnySceneForward(scene.scene, size)
    /\ spc' = (IF soutput'.tag = "Ok" THEN "done" ELSE "panicked")
    /\ UNCHANGED <<sconfig, scene>>
    /\ UNCHANGED <<dvars, evars, rvars, mvars, xvars>>

SceneNext ==
    \/ DoSceneInit
    \/ DoSceneForward

SpecScene == SceneStart /\ [][SceneNext]_vars

(***************************************************************************)
(* The experiment as a state machine: a configuration is chosen and the    *)
(* artifact path is in some state; init builds the Trainer, and train (or  *)
(* the older fit) runs its loop one epoch at a time and then saves.        *)
(***************************************************************************)
MaxEpochs == 21

EpochCounts == {0, 1, MaxEpochs}

ExperimentFiles == {"experiment/mod.rs", "trainer/mod.rs"}

ExperimentArchives ==
    {ar \in Archives : /\ ar.image_count <= 2
                       /\ ar.pose_count = ar.image_count
                       /\ ar.height <= 2
                       /\ ar.width <= 2}

ExperimentDatasets ==
    {cfg \in Configs : /\ cfg.points_per_ray <= 2
                       /\ cfg.distance_range = [start |-> 2, end |-> 6]}

ExperimentRenderers ==
    {cfg \in RendererConfigs : /\ cfg.points_per_ray \in {0, 2}
                               /\ cfg.rays_per_chunk \in {0, 2}
                               /\ cfg.scene.hidden_size = 1
                               /\ cfg.scene.input_encoder.encoding_factor <= 1
                               /\ cfg.points_per_ray + cfg.rays_per_chunk >= 2}

ExperimentRatios == {Ratio(FALSE, 0), Ratio(FALSE, F32Unit \div 2)}

ExperimentConfigs ==
    [file : ExperimentFiles,
     dataset : ExperimentDatasets,
     archive : ExperimentArchives,
     train_ratio : ExperimentRatios,
     renderer : ExperimentRenderers,
     net : {0},
     epoch_count : EpochCounts]

Paths ==
    {Absent, PlainFile, Directory({}),
     Directory({<<"experiment.json", "old">>, <<"config.json", "old">>,
                <<"notes.txt", "old">>})}

ExperimentStart ==
    /\ DatasetIdle
    /\ EncoderIdle
    /\ RendererIdle
    /\ MetricIdle
    /\ SceneIdle
    /\ xpc = "config"
    /\ xconfig \in ExperimentConfigs
    /\ xpath \in Paths
    /\ xbuilt = NoCall
    /\ xrun = NoCall

\* Where the program stands after a call that returned `result`.
After(result) ==
    IF result.tag = "Ok" THEN "ready"
    ELSE IF result.tag = "panic" THEN "panicked" ELSE "failed"

DoExperimentInit ==
    /\ xpc = "config"
    /\ xconfig.file = "experiment/mod.rs"
    /\ \E clear \in BOOLEAN, fault \in IoFaults \ {"bar"} :
          LET out == ExperimentInit(xconfig, xpath, clear, fault)
          IN  /\ xbuilt' = [tag |-> "call", clear |-> clear, before |-> xpath,
                            out |-> out.result]
              /\ xpath' = out.path
              /\ xpc' = After(out.result)
    /\ UNCHANGED <<xconfig, xrun>>
    /\ UNCHANGED <<dvars, evars, rvars, mvars, svars>>

DoTrainerInit ==
    /\ xpc = "config"
    /\ xconfig.file = "trainer/mod.rs"
    /\ \E fault \in IoFaults \ {"bar"} :
          LET out == TrainerInit(xconfig, xpath, fault)
          IN  /\ xbuilt' = [tag |-> "call", clear |-> TRUE, before |-> xpath,
                            out |-> out.result]
              /\ xpath' = out.path
              /\ xpc' = After(out.result)
    /\ UNCHANGED <<xconfig, xrun>>
    /\ UNCHANGED <<dvars, evars, rvars, mvars, svars>>

DoTrainBegin ==
    /\ xpc = "ready"
    /\ xconfig.file = "experiment/mod.rs"
    /\ \E noise \in RayNoises(xconfig.dataset.points_per_ray) :
          LET out == TrainBegin(xbuilt.out.trainer, noise)
          IN  /\ xrun' = out.run
              /\ xpc' = out.pc
    /\ UNCHANGED <<xconfig, xpath, xbuilt>>
    /\ UNCHANGED <<dvars, evars, rvars, mvars, svars>>

DoTrainEpoch ==
    /\ xpc = "loop"
    /\ xconfig.file = "experiment/mod.rs"
    /\ xrun.epoch < xbuilt.out.trainer.epoch_count
    /\ \E pick \in 0..Max(xrun.dataset_size - 1, 0),
          noise \in RayNoises(xconfig.dataset.points_per_ray),
          fault \in {"none", "bar"} :
          LET out == TrainEpoch(xbuilt.out.trainer, xrun, pick, noise, fault)
          IN  /\ xrun' = out.run
              /\ xpc' = out.pc
              /\ xbuilt' = [xbuilt EXCEPT
                               !.out.trainer = TrainerAfterTrain(@, out.run)]
    /\ UNCHANGED <<xconfig, xpath>>
    /\ UNCHANGED <<dvars, evars, rvars, mvars, svars>>

DoTrainEnd ==
    /\ xconfig.file = "experiment/mod.rs"
    /\ \/ xpc = "ended"
       \/ xpc = "loop" /\ xrun.epoch = xbuilt.out.trainer.epoch_count
    /\ \E fault \in {"none", "bar", "save"} :
          LET out == TrainEnd(xrun, xpath, fault)
          IN  /\ xrun' = out.run
              /\ xpc' = out.pc
              /\ xpath' = out.path
              /\ xbuilt' = [xbuilt EXCEPT
                               !.out.trainer = TrainerAfterTrain(@, out.run)]
    /\ UNCHANGED xconfig
    /\ UNCHANGED <<dvars, evars, rvars, mvars, svars>>

DoFitBegin ==
    /\ xpc = "ready"
    /\ xconfig.file = "trainer/mod.rs"
    /\ xrun' = FitBegin(xbuilt.out.trainer).run
    /\ xpc' = FitBegin(xbuilt.out.trainer).pc
    /\ UNCHANGED <<xconfig, xpath, xbuilt>>
    /\ UNCHANGED <<dvars, evars, rvars, mvars, svars>>

DoFitEpoch ==
    /\ xpc = "loop"
    /\ xconfig.file = "trainer/mod.rs"
    /\ xrun.epoch < xbuilt.out.trainer.epoch_count
    /\ \E pick \in 0..Max(xrun.dataset_size - 1, 0),
          noise \in RayNoises(xconfig.dataset.points_per_ray),
          fault \in {"none", "bar"} :
          LET out == FitEpoch(xbuilt.out.trainer, xrun, pick, noise, fault)
          IN  /\ xrun' = out.run
              /\ xpc' = out.pc
    /\ UNCHANGED <<xconfig, xpath, xbuilt>>
    /\ UNCHANGED <<dvars, evars, rvars, mvars, svars>>

DoFitEnd ==
    /\ xconfig.file = "trainer/mod.rs"
    /\ \/ xpc = "ended"
       \/ xpc = "loop" /\ xrun.epoch = xbuilt.out.trainer.epoch_count
    /\ \E noise \in RayNoises(xconfig.dataset.points_per_ray),
          fault \in {"none", "bar", "save"} :
          LET out == FitEnd(xbuilt.out.trainer, xrun, xpath, noise, fault)
          IN  /\ xrun' = out.run
              /\ xpc' = out.pc
              /\ xpath' = out.path
    /\ UNCHANGED <<xconfig, xbuilt>>
    /\ UNCHANGED <<dvars, evars, rvars, mvars, svars>>

ExperimentNext ==
    \/ DoExperimentInit
    \/ DoTrainerInit
    \/ DoTrainBegin
    \/ DoTrainEpoch
    \/ DoTrainEnd
    \/ DoFitBegin
    \/ DoFitEpoch
    \/ DoFitEnd

SpecExperiment == ExperimentStart /\ [][ExperimentNext]_vars

(***************************************************************************)
(* Properties of the dataset.                                              *)
(***************************************************************************)
\* The image count and split sizes asserted by tests::simple_nerf_dataset_splitting.
TestImageCount == 106

TestTrainCount == 85

TestTestCount == 21

JustSplit == pc = "split" /\ call.tag = "call"

\* C1: for every dataset of n items and every ratio, split_for_training
\* returns a train and a test split whose lengths add up to n; ratio 1.0
\* (and every ratio above 1) leaves the test split empty, ratio 0.0 (and
\* every ratio below 0) leaves the train split empty.
C1_SplitLengths ==
    (pc \in {"split", "panicked"} /\ call.tag = "call") =>
        /\ call.out.tag = "Ok"
        /\ Len(call.out.train.inners) + Len(call.out.test.inners)
              = Len(call.parent.inners)
        /\ (~call.ratio.nan /\ ~call.ratio.neg /\ call.ratio.m >= F32Unit)
              => Len(call.out.test.inners) = 0
        /\ (~call.ratio.nan /\ (call.ratio.neg \/ call.ratio.m = 0))
              => Len(call.out.train.inners) = 0

C1_Witness ==
    /\ JustSplit
    /\ call.ratio = Ratio(FALSE, 3 * (F32Unit \div 2))
    /\ Len(call.parent.inners) = MaxImages
    /\ Len(call.out.train.inners) = MaxImages
    /\ Len(call.out.test.inners) = 0

\* C2: split_for_training is an order-preserving contiguous partition: train
\* is the first k items of the receiver and test the remaining n - k, in
\* their original order, with k the integer nearest to clamp(ratio, 0, 1) * n
\* (n = 106 and ratio = 0.8 give 85 and 21).
C2_ContiguousPartition ==
    /\ SplitIndex(RatioTest, TestImageCount) = TestTrainCount
    /\ TestImageCount - SplitIndex(RatioTest, TestImageCount) = TestTestCount
    /\ (pc \in {"split", "panicked"} /\ call.tag = "call") =>
          /\ call.out.tag = "Ok"
          /\ LET n == Len(call.parent.inners)
                 k == Len(call.out.train.inners)
                 c == IF call.ratio.neg THEN 0
                      ELSE IF call.ratio.m > F32Unit THEN F32Unit
                      ELSE call.ratio.m
             IN  /\ k <= n
                 /\ call.out.train.inners = SubSeq(call.parent.inners, 1, k)
                 /\ call.out.test.inners = SubSeq(call.parent.inners, k + 1, n)
                 /\ call.out.train.inners \o call.out.test.inners
                       = call.parent.inners
                 /\ ~call.ratio.nan
                       => 2 * Abs(k * F32Unit - F32Mul(c, n)) <= F32Unit

C2_Witness ==
    /\ JustSplit
    /\ call.ratio = RatioTest
    /\ Len(call.parent.inners) = 3
    /\ Len(call.out.train.inners) = 2
    /\ Len(call.out.test.inners) = 1
    /\ call.out.test.inners[1] = call.parent.inners[3]

ValidIndex(g) == g.tag = "call" /\ g.index < Len(dataset.inners)

\* C3: jitter happens exactly on train splits: the freshly built dataset and
\* every test split are not noisy and return the same positions and intervals
\* on a repeated get(i); every train split is noisy and two get(i) of one
\* index can return different positions.
C3_JitterOnTrainOnly ==
    /\ role \in {"full", "test"} => ~dataset.has_noisy_distance
    /\ role = "train" => dataset.has_noisy_distance
    /\ (role \in {"full", "test"} /\ ValidIndex(got)) => got.out.tag = "Some"
    /\ (role \in {"full", "test"} /\ ValidIndex(got) /\ got2.tag = "call") =>
          /\ got2.out.positions = got.out.positions
          /\ got2.out.intervals = got.out.intervals
    /\ (role = "train" /\ ValidIndex(got)) =>
          /\ got.out.tag = "Some"
          /\ \E noise \in RayNoises(config.points_per_ray) :
                LET other == Get(dataset, got.index, got.ray[1], got.ray[2], noise)
                IN  other.tag = "Some" /\ other.positions # got.out.positions

\* What C3 says, for the datasets whose items have at least two samples a ray.
C3_JitterTwoSamples ==
    config.points_per_ray >= 2 => C3_JitterOnTrainOnly

C3_JitterSeen ==
    /\ role = "train"
    /\ ValidIndex(got)
    /\ got2.tag = "call"
    /\ got.out.tag = "Some"
    /\ got2.out.tag = "Some"
    /\ got2.out.positions # got.out.positions

InvalidConfig(cfg, ar) ==
    \/ cfg.points_per_ray = 0
    \/ cfg.distance_range.start = cfg.distance_range.end
    \/ ar.image_count # ar.pose_count
    \/ ar.channel_count # 3

\* C4: init_from_reader returns InvalidData and no dataset whenever
\* points_per_ray = 0, the distance range is a single point, the image and
\* pose counts differ or the images do not have 3 channels; otherwise it
\* returns a dataset.
C4_InvalidData ==
    pc # "config" =>
        /\ InvalidConfig(config, archive) =>
              /\ built = [tag |-> "Err", kind |-> "InvalidData"]
              /\ pc = "failed"
              /\ dataset = NoDataset
              /\ role = "none"
        /\ ~InvalidConfig(config, archive) =>
              /\ built = [tag |-> "Ok"]
              /\ pc # "failed"
              /\ role = "full" =>
                    /\ Len(dataset.inners) = archive.image_count
                    /\ ~dataset.has_noisy_distance

C4_Witness ==
    /\ pc = "failed"
    /\ config.points_per_ray >= 1
    /\ config.distance_range.start # config.distance_range.end
    /\ archive.image_count = archive.pose_count
    /\ archive.channel_count = 4
    /\ built.tag = "Err"

SwappedConfig(cfg) ==
    [cfg EXCEPT !.distance_range =
        [start |-> cfg.distance_range.end, end |-> cfg.distance_range.start]]

\* C5: the distance range is order-independent: a range given as (hi, lo)
\* is accepted exactly when (lo, hi) is, and yields the same dataset: the
\* same spacing (hi - lo) / points_per_ray and the same sample distances
\* lo + i * spacing.
C5_RangeOrderIndependent ==
    pc # "config" =>
        LET other == InitFromReader(SwappedConfig(config), archive)
            lo == Min(config.distance_range.start, config.distance_range.end)
            hi == Max(config.distance_range.start, config.distance_range.end)
        IN  /\ built.tag = other.tag
            /\ (pc = "ready" /\ role = "full") =>
                  /\ dataset = other.dataset
                  /\ dataset.distance = (hi - lo) * NoiseSteps
                  /\ \A k \in 1..Len(dataset.inners) :
                        \A i \in 0..(config.points_per_ray - 1) :
                           dataset.inners[k].distances.data[<<0, 0, i>>]
                              * config.points_per_ray
                           = (lo * config.points_per_ray + i * (hi - lo))
                                * dataset.inners[k].distances.den

C5_Witness ==
    /\ pc = "ready"
    /\ role = "full"
    /\ config.distance_range.start > config.distance_range.end
    /\ config.points_per_ray >= 2
    /\ dataset.inners[1].distances.data[<<0, 0, 1>>]
          > dataset.inners[1].distances.data[<<0, 0, 0>>]

\* C6: for every dataset, len() is the number of images it holds, get(i)
\* returns an item for every i < len() and None for every i >= len().
C6_LenAndGet ==
    /\ DatasetLen(dataset) = Len(dataset.inners)
    /\ role = "full" => DatasetLen(dataset) = archive.image_count
    /\ got.tag = "call" =>
          /\ got.index < DatasetLen(dataset) => got.out.tag = "Some"
          /\ got.index >= DatasetLen(dataset) => got.out = None

\* C7: every item get returns, for every points_per_ray >= 1 and image size,
\* has directions and positions of shape [height, width, points_per_ray, 3],
\* intervals of shape [height, width, points_per_ray, 1] and an image of
\* shape [height, width, 3].
C7_ItemShapes ==
    (got.tag = "call" /\ got.index < Len(dataset.inners)) =>
        LET grid == <<archive.height, archive.width, config.points_per_ray>>
        IN  /\ got.out.tag = "Some"
            /\ got.out.directions.shape = grid \o <<3>>
            /\ got.out.positions.shape = grid \o <<3>>
            /\ got.out.positions.shape = got.out.directions.shape
            /\ got.out.intervals.shape = grid \o <<1>>
            /\ got.out.image.shape = <<archive.height, archive.width, 3>>

(***************************************************************************)
(* Properties of the encoder.                                              *)
(***************************************************************************)
\* C8: for every encoding_factor L >= 1 and every input with C channels,
\* forward returns features of width C * (2L + 1), which is what
\* get_output_size(C) returns; for L = 0, init fails and no encoder exists.
C8_EncoderWidth ==
    /\ epc \notin {"idle", "config"} =>
          /\ econfig.encoding_factor = 0 =>
                /\ epc = "failed"
                /\ encoder.tag = "Err"
                /\ eoutput = NoCall
          /\ econfig.encoding_factor >= 1 =>
                /\ epc # "failed"
                /\ encoder.tag = "Ok"
    /\ epc \in {"done", "panicked"} =>
          /\ eoutput.tag = "Ok"
          /\ eoutput.shape =
                <<einput[1], einput[2] * (2 * econfig.encoding_factor + 1)>>
          /\ Len(eoutput.row) = einput[2] * (2 * econfig.encoding_factor + 1)
          /\ (esize.tag = "call" /\ esize.input_size = einput[2])
                => eoutput.shape[2] = esize.out
    /\ esize.tag = "call" =>
          esize.out = esize.input_size * (2 * econfig.encoding_factor + 1)

C8_Witness ==
    /\ epc = "done"
    /\ econfig.encoding_factor = 2
    /\ einput = <<2, 5>>
    /\ eoutput.shape = <<2, 25>>
    /\ esize.tag = "call"
    /\ esize.input_size = 5
    /\ esize.out = 25

(***************************************************************************)
(* Properties of the renderer.                                             *)
(***************************************************************************)
\* The scene network was called on every chunk: the chunk count is not 0 and
\* every narrow of Tensor::chunk is within the rows.
Chunked ==
    /\ rpc \in {"done", "panicked"}
    /\ Chunk(rinput.height * rinput.width * rinput.points_per_ray,
             ChunkCount(renderer.renderer, rinput)).tag = "Ok"

\* C9: for every height, width and points_per_ray >= 1, square or not,
\* forward on directions and positions of shape [height, width,
\* points_per_ray, 3] and intervals of shape [height, width, points_per_ray,
\* 1] returns an image of shape [height, width, 3].
C9_ImageShape ==
    Chunked =>
        /\ routput.tag = "Ok"
        /\ routput.image.shape = <<rinput.height, rinput.width, 3>>

\* What the code does return: the image, unless points_per_ray >= 2 and the
\* grid has more than one row and is not square.
C9_ImageShapeWhenSquare ==
    Chunked =>
        IF rinput.points_per_ray = 1 \/ rinput.height = rinput.width
              \/ rinput.height = 1
        THEN /\ routput.tag = "Ok"
             /\ routput.image.shape = <<rinput.height, rinput.width, 3>>
        ELSE routput.tag = "panic"

RECURSIVE ExclusiveProduct(_, _, _, _)
ExclusiveProduct(t, r, c, i) ==
    IF i = 0 THEN NumInt(1)
    ELSE NumMul(ExclusiveProduct(t, r, c, i - 1), t[<<r, c, i - 1>>])

RECURSIVE InclusiveProduct(_, _, _, _)
InclusiveProduct(t, r, c, i) ==
    IF i = 0 THEN NumAdd(t[<<r, c, 0>>], Eps)
    ELSE NumMul(InclusiveProduct(t, r, c, i - 1), NumAdd(t[<<r, c, i>>], Eps))

OneMinus(x) == NumAdd(NumInt(1), NumNeg(x))

\* C10: on every ray the cumulative transmittance of sample i is the
\* exclusive product T_i = tau_0 * ... * tau_(i-1), with T_0 = 1; the weight
\* of sample i is (1 - tau_i) * T_i and the pixel is the sum of the weights
\* times the colours of the samples.
C10_ExclusiveTransmittance ==
    (rpc = "done" /\ rinput.height = rinput.width) =>
        /\ \A g \in DOMAIN routput.translucency :
              /\ routput.cumulative_translucency[g]
                    = ExclusiveProduct(routput.translucency, g[1], g[2], g[3])
              /\ routput.transmittance[g]
                    = NumMul(OneMinus(routput.translucency[g]),
                             ExclusiveProduct(routput.translucency, g[1], g[2], g[3]))
        /\ \A px \in DOMAIN routput.image.data : \A ch \in 1..3 :
              routput.image.data[px][ch]
                 = NumSum([i \in 1..rinput.points_per_ray |->
                      NumMul(NumDyadic(routput.colors[<<px[1], px[2], i - 1>>][ch], 1),
                             NumMul(OneMinus(routput.translucency[
                                                <<px[1], px[2], i - 1>>]),
                                    ExclusiveProduct(routput.translucency,
                                                     px[1], px[2], i - 1)))])

\* What the code computes on a square grid: the inclusive product of the
\* translucencies each raised by 1e-9, (tau_0 + Eps) * ... * (tau_i + Eps).
C10_InclusiveTransmittance ==
    (rpc = "done" /\ rinput.height = rinput.width) =>
        /\ \A g \in DOMAIN routput.translucency :
              /\ routput.cumulative_translucency[g]
                    = InclusiveProduct(routput.translucency, g[1], g[2], g[3])
              /\ routput.transmittance[g]
                    = NumMul(OneMinus(routput.translucency[g]),
                             InclusiveProduct(routput.translucency, g[1], g[2], g[3]))
        /\ \A px \in DOMAIN routput.image.data : \A ch \in 1..3 :
              routput.image.data[px][ch]
                 = NumSum([i \in 1..rinput.points_per_ray |->
                      NumMul(NumDyadic(routput.colors[<<px[1], px[2], i - 1>>][ch], 1),
                             routput.transmittance[<<px[1], px[2], i - 1>>])])

\* The order of the numbers at Eps = 1e-9.  A number whose coefficients are
\* integers of at most CoeffLimit in absolute value has the sign of its
\* lowest-degree coefficient that is not 0, since 1e-9 * CoeffLimit is far
\* below 1.
CoeffLimit == 2 ^ 20

NumSmall(a) == \A j \in 1..Len(a.c) : Abs(a.c[j]) <= CoeffLimit

RECURSIVE NumLowest(_)
NumLowest(c) ==
    IF c = <<>> THEN 0 ELSE IF Head(c) # 0 THEN Head(c) ELSE NumLowest(Tail(c))

NumNonNeg(a) == NumSmall(a) /\ NumLowest(a.c) >= 0

NumLeq(a, b) == NumNonNeg(NumAdd(b, NumNeg(a)))

\* The sum of the weights of the samples of ray (r, c).
WeightSum(r, c) ==
    NumSum([i \in 1..rinput.points_per_ray |-> routput.transmittance[<<r, c, i - 1>>]])

\* C11: on every ray, for all the non-negative densities and intervals,
\* every compositing weight the renderer computes is at least 0 and the
\* weights of the ray sum to at most 1.
C11_WeightsSubProbability ==
    rpc = "done" =>
        /\ \A g \in DOMAIN routput.transmittance :
              NumNonNeg(routput.transmittance[g])
        /\ \A px \in DOMAIN routput.image.data :
              NumLeq(WeightSum(px[1], px[2]), NumInt(1))

\* What the code does: the bound holds on the rays whose cumulative product
\* is taken over their own samples, which are all the rays unless the grid
\* is one row of several columns (see C9).
C11_WeightsOnOwnSamples ==
    (rpc = "done" /\ (rinput.height = rinput.width \/ rinput.points_per_ray = 1)) =>
        C11_WeightsSubProbability

\* A ray of the second column whose weights sum to more than 3/2.
C11_OtherColumnSeen ==
    /\ rpc = "done"
    /\ rinput.height = 1
    /\ rinput.width = 2
    /\ NumLeq(NumDyadic(3, 1), WeightSum(0, 1))

C11_Witness ==
    /\ rpc = "done"
    /\ rinput.points_per_ray = 3
    /\ \E px \in DOMAIN routput.image.data :
          /\ NumLeq(NumDyadic(1, 2), WeightSum(px[1], px[2]))
          /\ \E i \in 0..1 :
                /\ routput.transmittance[<<px[1], px[2], i>>] # NumInt(0)
                /\ routput.transmittance[<<px[1], px[2], i + 1>>] # NumInt(0)

\* C12: with points_per_ray = 1 the weight of the single sample is
\* 1 - tau_0 and the pixel is (1 - tau_0) * color_0.
C12_SingleSample ==
    (rpc = "done" /\ rinput.points_per_ray = 1) =>
        \A px \in DOMAIN routput.image.data :
           /\ routput.transmittance[<<px[1], px[2], 0>>]
                 = OneMinus(routput.translucency[<<px[1], px[2], 0>>])
           /\ \A ch \in 1..3 :
                 routput.image.data[px][ch]
                    = NumMul(NumDyadic(routput.colors[<<px[1], px[2], 0>>][ch], 1),
                             OneMinus(routput.translucency[<<px[1], px[2], 0>>]))

\* What the code computes with points_per_ray = 1: the weight
\* (1 - tau_0) * (tau_0 + Eps).
C12_SingleSampleInclusive ==
    (rpc = "done" /\ rinput.points_per_ray = 1) =>
        \A px \in DOMAIN routput.image.data :
           /\ routput.transmittance[<<px[1], px[2], 0>>]
                 = NumMul(OneMinus(routput.translucency[<<px[1], px[2], 0>>]),
                          NumAdd(routput.translucency[<<px[1], px[2], 0>>], Eps))
           /\ \A ch \in 1..3 :
                 routput.image.data[px][ch]
                    = NumMul(NumDyadic(routput.colors[<<px[1], px[2], 0>>][ch], 1),
                             routput.transmittance[<<px[1], px[2], 0>>])

\* The renderer with the chunk size that makes the whole grid one chunk.
SingleChunk ==
    [renderer.renderer EXCEPT
        !.chunk_size = rinput.height * rinput.width * rinput.points_per_ray]

\* The renderer with chunk size 1.
MaximalChunks == [renderer.renderer EXCEPT !.chunk_size = 1]

\* The samples of the grid, each once, in row-major order.
GridSamples ==
    [q \in 1..(rinput.height * rinput.width * rinput.points_per_ray) |-> q - 1]

SameRendering(a, b) ==
    /\ a.tag = b.tag
    /\ a.tag = "Ok" =>
          /\ a.image = b.image
          /\ a.colors = b.colors
          /\ a.translucency = b.translucency

\* C13: for a fixed scene network and grid the rendered image does not
\* depend on the chunk size: whatever the chunk size, every sample is given
\* to the scene network exactly once and its colour and density return to
\* its grid position, so the image is the one a single chunk gives, and
\* the one chunk size 1 gives.
C13_ChunkingInvariance ==
    rpc \in {"done", "panicked"} =>
        /\ SameRendering(routput, RendererForward(SingleChunk, rinput))
        /\ SameRendering(routput, RendererForward(MaximalChunks, rinput))
        /\ routput.tag = "Ok" => ChunkSamples(routput.chunks) = GridSamples

\* The same, for the calls in which Tensor::chunk returned chunks.
C13_InvarianceWhenChunked ==
    Chunked => C13_ChunkingInvariance

C13_TwoChunksSeen ==
    /\ rpc = "done"
    /\ Len(routput.chunks) >= 2
    /\ \E k \in 1..Len(routput.chunks) : routput.chunks[k].length >= 2

ZeroConfig(cfg) ==
    \/ cfg.points_per_ray = 0
    \/ cfg.rays_per_chunk = 0
    \/ cfg.scene.input_encoder.encoding_factor = 0

\* C15: VolumeRendererConfig::init returns an error and no renderer when
\* points_per_ray = 0, when rays_per_chunk = 0 or when the encoder's
\* encoding_factor = 0 (the encoder's error, passed on by the scene's init);
\* otherwise the renderer it returns has the configured values, none of them
\* replaced.
C15_ConfigErrorsFailFast ==
    rpc \notin {"idle", "config"} =>
        /\ ZeroConfig(rconfig) =>
              /\ rpc = "failed"
              /\ renderer.tag = "Err"
              /\ rinput = NoCall
              /\ routput = NoCall
        /\ (rconfig.points_per_ray > 0 /\ rconfig.rays_per_chunk > 0
              /\ rconfig.scene.input_encoder.encoding_factor = 0) =>
              /\ renderer = EncoderError
              /\ \A net \in Nets : SceneInit(rconfig.scene, net) = EncoderError
        /\ ~ZeroConfig(rconfig) =>
              /\ rpc # "failed"
              /\ renderer.tag = "Ok"
              /\ renderer.renderer.chunk_size
                    = rconfig.points_per_ray * rconfig.rays_per_chunk
              /\ Len(renderer.renderer.scene.hidden_layers) = 8
              /\ renderer.renderer.scene.hidden_layers[1].d_input
                    = 6 * (2 * rconfig.scene.input_encoder.encoding_factor + 1)
              /\ \A net \in Nets : SceneInit(rconfig.scene, net).tag = "Ok"

C15_Witness ==
    /\ rpc = "failed"
    /\ rconfig.points_per_ray > 0
    /\ rconfig.rays_per_chunk > 0
    /\ rconfig.scene.input_encoder.encoding_factor = 0
    /\ renderer = EncoderError

\* C16: a renderer built with points_per_ray >= 1 and rays_per_chunk >= 1
\* never fails in forward on a grid with height, width, points_per_ray >= 1:
\* the chunk count round(height * width * points_per_ray / chunk_size) is at
\* least 1 for every image size.  (Stated for the square grids, which the
\* slice of C9 leaves alone.)
C16_ForwardNeverFails ==
    (rpc \in {"done", "panicked"} /\ rinput.height = rinput.width) =>
        /\ ChunkCount(renderer.renderer, rinput) >= 1
        /\ routput.tag = "Ok"

\* What the code does: the chunk count is 0, and Tensor::chunk fails, when
\* the grid has fewer samples than half the chunk size.
C16_FailsBelowHalfChunk ==
    (rpc \in {"done", "panicked"} /\ rinput.height = rinput.width) =>
        LET total == rinput.height * rinput.width * rinput.points_per_ray
        IN  /\ ChunkCount(renderer.renderer, rinput) = 0
                  <=> 2 * total < renderer.renderer.chunk_size
            /\ routput.tag = "Ok"
                  <=> 2 * total >= renderer.renderer.chunk_size

C16_SmallImageSeen ==
    /\ rpc = "panicked"
    /\ rinput.height = 1
    /\ rinput.width = 1
    /\ 2 * rinput.points_per_ray < renderer.renderer.chunk_size

\* The chunks forward gives to the scene network, one call each.
SceneCalls ==
    Chunk(rinput.height * rinput.width * rinput.points_per_ray,
          ChunkCount(renderer.renderer, rinput)).parts

\* C17: chunk_size = points_per_ray * rays_per_chunk bounds the work of one
\* scene network call: for every image resolution no chunk given to the
\* scene network has more than chunk_size samples.
C17_ChunkWithinChunkSize ==
    Chunked =>
        \A k \in 1..Len(SceneCalls) :
            SceneCalls[k].length <= renderer.renderer.chunk_size

\* What the code does: the rounded chunk count lets a chunk grow to one and
\* a half times chunk_size.
C17_ChunkWithinHalfMore ==
    Chunked =>
        \A k \in 1..Len(SceneCalls) :
            2 * SceneCalls[k].length <= 3 * renderer.renderer.chunk_size

C17_LargeChunkSeen ==
    /\ rpc = "done"
    /\ routput.tag = "Ok"
    /\ \E k \in 1..Len(routput.chunks) :
          routput.chunks[k].length > renderer.renderer.chunk_size

\* The mean of the squared differences, element by element.
RECURSIVE SquaredError(_, _)
SquaredError(a, b) ==
    IF a = <<>> THEN <<0, 1>>
    ELSE RatAdd(RatMul(RatSub(Head(a), Head(b)), RatSub(Head(a), Head(b))),
                SquaredError(Tail(a), Tail(b)))

Mse(a, b) == RatDiv(SquaredError(a, b), <<Len(a), 1>>)

LnTen == LnOf(<<10, 1>>)

\* p = -10 * log10(mse), that is 10 ^ (-p / 10) = mse: with p = c * ln(up) /
\* ln(10),  c * ln(up) = -10 * ln(mse).
IsPsnrOf(p, mse) ==
    IF mse[1] = 0 THEN p = Inf(FALSE)
    ELSE /\ p.tag = "Val"
         /\ p.down.on => p.down.v = LnTen
         /\ p.up.on => p.down.on
         /\ LET up == IF p.up.on THEN p.up.v ELSE LnTen
            IN  \A q \in Primes :
                    p.c[1] * up[q] = -10 * p.c[2] * LnOf(mse)[q]

\* C18: for two equal-shape tensors forward returns -10 * log10(MSE), MSE
\* the mean of the squared differences (20 * log10(2), which lies between
\* 6 and 6.09 as 2^10 > 10^3 and 2^23 < 10^7, for MSE = 1/4), and the
\* struct of metric.rs, with its coefficient -10 / ln(10) and from_mse, and
\* the struct of metric/mod.rs, which divides by ln(10) and multiplies by
\* -10, return the same value.
C18_PsnrValue ==
    mpc \in {"scored", "swapped"} =>
        /\ IsPsnrOf(mpsnr, Mse(mlogits, mtargets))
        /\ PsnrForward(MetricInit("metric.rs"), mlogits, mtargets) = mpsnr
        /\ PsnrModForward(MetricInit("metric/mod.rs"), mlogits, mtargets) = mpsnr
        /\ Mse(mlogits, mtargets) = <<1, 4>> =>
              /\ mpsnr = Scalar(<<20, 1>>, Ln(LnOf(<<2, 1>>)), Ln(LnTen))
              /\ 2 ^ 10 > 10 ^ 3
              /\ 2 ^ 23 < 10 ^ 7

C18_Witness ==
    /\ mpc = "scored"
    /\ Mse(mlogits, mtargets) = <<1, 4>>
    /\ mpsnr.tag = "Val"
    /\ mpsnr.c = <<20, 1>>
    /\ mpsnr.up.on
    /\ mpsnr.down.on

\* C19: PSNR is symmetric, forward(a, b) = forward(b, a) for all
\* equal-shape tensors a and b, and forward leaves the constant the metric
\* stores (coefficient, or log_10) as init computed it.
C19_PsnrSymmetric ==
    /\ mpc = "swapped" => mswapped = mpsnr
    /\ mpc \in {"scored", "swapped"} =>
          /\ MetricForward(metric, mtargets, mlogits) = mpsnr
          /\ metric \in {MetricInit("metric.rs"), MetricInit("metric/mod.rs")}

C19_Witness ==
    /\ mpc = "swapped"
    /\ \E i \in 1..Len(mlogits) : mlogits[i][1] * mtargets[i][2]
                                     < mtargets[i][1] * mlogits[i][2]
    /\ \E i \in 1..Len(mlogits) : mlogits[i][1] * mtargets[i][2]
                                     > mtargets[i][1] * mlogits[i][2]
    /\ mpsnr.tag = "Val"
    /\ mswapped = mpsnr

\* The directions init_from_reader computes for image k of the archive, had
\* its focal length been f.
DirectionsAt(f, k) ==
    Inner([archive EXCEPT !.focal = f], config.points_per_ray,
          OrderedRange(config.distance_range),
          InnerShapes(archive, config.points_per_ray), k).directions

\* The direction of pixel (row r, column c) is [0, 0, -1]: a focal length
\* of 0 divides 0 by 0 and gives no number.
IsDownAxis(directions, r, c) ==
    /\ directions.den # 0
    /\ \A x \in DOMAIN directions.data :
          (x[1] = r /\ x[2] = c) => directions.data[x] = <<0, 0, -directions.den>>

IdentityImages == {k \in 1..archive.image_count : archive.poses[k] = IdentityPose}

\* C20: for an identity pose and any focal length the direction computed
\* for the centre pixel (px = width / 2, py = height / 2) is [0, 0, -1]
\* exactly.
C20_CentreDirection ==
    role = "full" =>
        \A f \in 0..MaxFocal, k \in IdentityImages :
            IsDownAxis(DirectionsAt(f, k), archive.height \div 2, archive.width \div 2)

\* C20 as the code has it: the same for an even width, an even height and a
\* focal length other than 0.
C20_CentreDirectionWhenEven ==
    role = "full" =>
        /\ \A k \in IdentityImages :
              DirectionsAt(archive.focal, k) = dataset.inners[k].directions
        /\ (archive.height % 2 = 0 /\ archive.width % 2 = 0) =>
              \A f \in ((-MaxFocal)..MaxFocal) \ {0}, k \in IdentityImages :
                  IsDownAxis(DirectionsAt(f, k),
                             archive.height \div 2, archive.width \div 2)

C20_Witness ==
    /\ role = "full"
    /\ archive.height = 2
    /\ archive.width = 2
    /\ archive.poses[1] = IdentityPose
    /\ dataset.inners[1].directions.data[<<1, 1, 0>>]
          = <<0, 0, -dataset.inners[1].directions.den>>

\* The pixel in the middle of an odd image does not look down the axis.
C20_OddImageSeen ==
    /\ role = "full"
    /\ archive.height = 1
    /\ archive.width = 1
    /\ archive.poses[1] = IdentityPose
    /\ dataset.inners[1].directions.data[<<0, 0, 0>>]
          = <<-1, 1, -dataset.inners[1].directions.den>>

\* The item the caller holds after a get that returned one.
HasItem(g) == ValidIndex(g) /\ g.out.tag = "Some"

GotInner(g) == dataset.inners[g.index + 1]

\* The distances a get of the observed ray works with when its draw is noise.
DrawDistances(g, noise) ==
    GetDistances(dataset, GotInner(g), g.ray[1], g.ray[2], noise)

\* The item's positions are origin + direction * distance for the distances ds.
PositionsFrom(g, ds) ==
    LET inner == GotInner(g)
        den == inner.directions.den * inner.distances.den
    IN  /\ g.out.positions.den = den
        /\ \A i \in DOMAIN ds :
              \A j \in 1..3 :
                  g.out.positions.data[i][j]
                     = inner.origins.data[<<g.ray[1], g.ray[2], 0>>][j] * den
                       + inner.directions.data[<<g.ray[1], g.ray[2], i>>][j] * ds[i]

\* The item's intervals are the differences of the distances ds, and 1e9 last.
IntervalsFrom(g, ds) ==
    LET last == config.points_per_ray - 1
    IN  /\ DOMAIN g.out.intervals.data = 0..last
        /\ \A i \in 0..(last - 1) :
              g.out.intervals.data[i]
                 = [n |-> ds[i + 1] - ds[i], d |-> GotInner(g).distances.den]
        /\ g.out.intervals.data[last] = [n |-> 1000000000, d |-> 1]

\* C21: on every access the intervals of the item are those of the access's
\* own distances: one draw of the noise gives both the item's positions and,
\* for each sample i < points_per_ray - 1, interval_i = distance_(i+1) -
\* distance_i; the last interval is 1e9.  Without noise the draw is the
\* stored distances.
C21_IntervalsOfSameDraw ==
    /\ HasItem(got) =>
          \E noise \in RayNoises(config.points_per_ray) :
              /\ PositionsFrom(got, DrawDistances(got, noise))
              /\ IntervalsFrom(got, DrawDistances(got, noise))
              /\ ~dataset.has_noisy_distance =>
                    \A i \in 0..(config.points_per_ray - 1) :
                        DrawDistances(got, noise)[i]
                           = GotInner(got).distances.data[<<got.ray[1], got.ray[2], i>>]
    /\ HasItem(got2) =>
          \E noise \in RayNoises(config.points_per_ray) :
              /\ PositionsFrom(got2, DrawDistances(got2, noise))
              /\ IntervalsFrom(got2, DrawDistances(got2, noise))

\* A jittered item whose first interval is not the even spacing.
C21_Witness ==
    /\ role = "train"
    /\ HasItem(got)
    /\ config.points_per_ray >= 2
    /\ got.out.intervals.data[0].n
          # GotInner(got).distances.data[<<got.ray[1], got.ray[2], 1>>]
            - GotInner(got).distances.data[<<got.ray[1], got.ray[2], 0>>]
    /\ got.out.intervals.data[config.points_per_ray - 1].n = LastInterval

\* The draws that give the item the caller holds.
DrawsOf(g) ==
    {noise \in RayNoises(config.points_per_ray) :
        /\ PositionsFrom(g, DrawDistances(g, noise))
        /\ IntervalsFrom(g, DrawDistances(g, noise))}

\* lo, hi, the spacing s = (hi - lo) / points_per_ray and the unjittered
\* d_i = lo + i * s, in the unit of the stored distances.
RangeLo == OrderedRange(config.distance_range).start * config.points_per_ray * NoiseSteps

RangeHi == OrderedRange(config.distance_range).end * config.points_per_ray * NoiseSteps

Spacing ==
    (OrderedRange(config.distance_range).end
        - OrderedRange(config.distance_range).start) * NoiseSteps

Unjittered(i) == RangeLo + i * Spacing

\* The distances ds of one ray do not overlap.
NoOverlap(ds) ==
    /\ \A i \in DOMAIN ds :
          /\ Unjittered(i) <= ds[i]
          /\ ds[i] <= Unjittered(i) + Spacing
          /\ RangeLo <= ds[i]
          /\ ds[i] <= RangeHi
    /\ \A i \in DOMAIN ds, j \in DOMAIN ds : i < j => ds[i] <= ds[j]

RenderedGrid == DOMAIN routput.translucency

\* The row the scene network returned for sample g of the grid.
RenderedRow(g) == SceneValue(renderer.renderer.scene.net, Flat(rinput, g))

\* Colours are in [0, 1] (in halves: 0..2) and densities are >= 0.
SceneHeadsInRange ==
    \A g \in RenderedGrid :
        /\ \A j \in 1..3 : routput.colors[g][j] >= 0 /\ routput.colors[g][j] <= 2
        /\ routput.colors[g] = RenderedRow(g).color
        /\ RenderedRow(g).density >= 0

\* C23: the scene network returns colours in [0, 1] and densities >= 0, and
\* therefore tau_i = exp(-density_i * interval_i) is in (0, 1] for every
\* sample of every item.
C23_TranslucencyPositive ==
    rpc = "done" =>
        /\ SceneHeadsInRange
        /\ \A g \in RenderedGrid :
              /\ routput.translucency[g] # NumInt(0)
              /\ NumNonNeg(routput.translucency[g])
              /\ NumLeq(routput.translucency[g], NumInt(1))

\* C23 as the code has it: tau_i is in [0, 1], and it is 0 where
\* density_i * interval_i is beyond the range of the f32 exp, as it is at
\* the last sample of a dataset item (interval 1e9) wherever the density is
\* not 0.
C23_TranslucencyInUnitInterval ==
    rpc = "done" =>
        /\ SceneHeadsInRange
        /\ \A g \in RenderedGrid :
              /\ NumNonNeg(routput.translucency[g])
              /\ NumLeq(routput.translucency[g], NumInt(1))
              /\ routput.translucency[g] = NumInt(0)
                    <=> RenderedRow(g).density * rinput.intervals[g[3] + 1]
                           > ExpUnderflow
              /\ (rinput.intervals[g[3] + 1] = LastInterval
                    /\ RenderedRow(g).density > 0)
                    => routput.translucency[g] = NumInt(0)

C23_Witness ==
    /\ rpc = "done"
    /\ rinput.intervals[rinput.points_per_ray] = LastInterval
    /\ \E g \in RenderedGrid :
          /\ g[3] = rinput.points_per_ray - 1
          /\ RenderedRow(g).density > 0
          /\ routput.translucency[g] = NumInt(0)
    /\ \E g \in RenderedGrid :
          /\ RenderedRow(g).density > 0
          /\ routput.translucency[g] # NumInt(0)

\* The pose of the image a SimpleNerfDatasetInner was built from.
PoseOf(inner) == archive.poses[inner.image.data]

\* R applied to [(px - width/2) / focal, (height/2 - py) / focal, -1], times
\* 2 * focal.
RotatedPinhole(pose, px, py) ==
    [j \in 1..3 |->
        pose.rotation[j][1] * (2 * px - archive.width)
        + pose.rotation[j][2] * (archive.height - 2 * py)
        + pose.rotation[j][3] * (-2 * archive.focal)]

\* C24: for every image, pixel (px, py) and pose (R, t) the ray direction is
\* R applied to the pinhole vector [(px - width/2) / focal, (height/2 - py)
\* / focal, -1] and the ray origin is t at every pixel; both are the same
\* for all the samples of the ray, and every sample position of an item is
\* origin + direction * distance.
C24_RayGeometry ==
    /\ \A n \in 1..Len(dataset.inners) :
          LET inner == dataset.inners[n]
          IN  /\ inner.directions.den = 2 * archive.focal
              /\ \A x \in DOMAIN inner.directions.data :
                    inner.directions.data[x] = RotatedPinhole(PoseOf(inner), x[2], x[1])
              /\ \A x \in DOMAIN inner.origins.data :
                    inner.origins.data[x] = PoseOf(inner).translation
    /\ HasItem(got) =>
          LET inner == GotInner(got)
              den == inner.directions.den * inner.distances.den
          IN  /\ \A i \in DOMAIN got.out.directions.data :
                    got.out.directions.data[i]
                       = RotatedPinhole(PoseOf(inner), got.ray[2], got.ray[1])
              /\ got.out.directions.den = 2 * archive.focal
              /\ \E noise \in DrawsOf(got) :
                    \A i \in DOMAIN got.out.positions.data :
                        \A j \in 1..3 :
                            got.out.positions.data[i][j]
                               = PoseOf(inner).translation[j] * den
                                 + RotatedPinhole(PoseOf(inner), got.ray[2],
                                                  got.ray[1])[j]
                                   * DrawDistances(got, noise)[i]

\* An item of an image with the turned pose, at the first pixel.
C24_Witness ==
    /\ HasItem(got)
    /\ PoseOf(GotInner(got)) = TurnedPose
    /\ got.ray = <<0, 0>>
    /\ got.out.directions.data[0]
          = <<-archive.height, -archive.width, -2 * archive.focal>>
    /\ got.out.positions.data[1][3] # got.out.positions.data[0][3]

\* i = 6 * (2L + 1), the width of the encoded input.
EncodedWidth == 6 * (2 * sconfig.config.input_encoder.encoding_factor + 1)

\* The width layer `index` of the hidden stack is to be fed.
ExpectedWidth(index) ==
    IF index = 0 THEN EncodedWidth
    ELSE IF index = 5 THEN sconfig.config.hidden_size + EncodedWidth
    ELSE sconfig.config.hidden_size

\* C25: the hidden stack has exactly 8 layers and the encoded input is
\* concatenated again at layer 5 and nowhere else; for every hidden_size
\* h >= 1 and encoding factor L >= 1 every layer is fed features of its
\* declared input width (i = 6 * (2L + 1) for layer 0, h + i for layer 5, h
\* for the others), forward does not fail and returns 3 colour channels and
\* 1 density channel for every sample.
C25_SceneWidths ==
    (spc \notin {"idle", "config"}
        /\ sconfig.config.input_encoder.encoding_factor >= 1) =>
        /\ spc \notin {"failed", "panicked"}
        /\ scene.tag = "Ok"
        /\ Len(scene.scene.hidden_layers) = 8
        /\ scene.scene.skip_indexs = {5}
        /\ \A index \in 0..7 :
              scene.scene.hidden_layers[index + 1]
                 = Linear(ExpectedWidth(index), sconfig.config.hidden_size)
        /\ spc = "done" =>
              IF sconfig.file = "scene/mod.rs"
              THEN /\ soutput.colors = <<ssize, 3>>
                   /\ soutput.opacities = <<ssize, 1>>
                   /\ soutput.fed = [q \in 1..8 |-> ExpectedWidth(q - 1)]
              ELSE soutput.outputs = <<ssize, 4>>

C25_Witness ==
    /\ spc = "done"
    /\ sconfig.file = "scene/mod.rs"
    /\ sconfig.config.hidden_size = 2
    /\ sconfig.config.input_encoder.encoding_factor = 2
    /\ ssize = 3
    /\ soutput.fed = <<30, 2, 2, 2, 2, 32, 2, 2>>
    /\ soutput.colors = <<3, 3>>
    /\ soutput.opacities = <<3, 1>>

(***************************************************************************)
(* Properties of the experiment and of the trainers.                       *)
(***************************************************************************)
InTrain == xconfig.file = "experiment/mod.rs" /\ xbuilt.tag = "call" /\ xbuilt.out.tag = "Ok"

InFit == xconfig.file = "trainer/mod.rs" /\ xbuilt.tag = "call" /\ xbuilt.out.tag = "Ok"

\* The renderer init built, as init built it.
BuiltRenderer == VolumeRendererInit(xconfig.renderer, xconfig.net).renderer

RECURSIVE StepsApplied(_, _)
StepsApplied(initial, n) ==
    IF n = 0 THEN initial ELSE OptimizerStep(StepsApplied(initial, n - 1))

\* What a finished train has done when the claim of C26 holds of it.
TrainedAsClaimed ==
    /\ xrun.steps = [k \in 1..(IF xrun.dataset_size > 0
                               THEN xbuilt.out.trainer.epoch_count ELSE 0) |-> k - 1]
    /\ xrun.saved = <<xrun.renderer>>
    /\ <<"volume-renderer.mpk", "new">> \in xpath.entries
    /\ xrun.result = [tag |-> "Ok", renderer |-> xrun.renderer]
    /\ xrun.renderer = StepsApplied(BuiltRenderer, Len(xrun.steps))
    /\ xbuilt.out.trainer.renderer = BuiltRenderer

\* C26: every call of Trainer::train, unless an I/O operation fails in it,
\* comes to its end having taken exactly epoch_count optimizer steps, one
\* per epoch in order, when the train dataset is non-empty and none when it
\* is empty; it has then saved the renderer exactly once, after the loop,
\* and returns the renderer of the last step, the Trainer's own renderer
\* being as init built it.
C26_TrainStepsAndSave ==
    (InTrain /\ xpc \in {"returned", "panicked"}) =>
        (xpc = "returned" /\ TrainedAsClaimed)

\* C26, for the calls that return: they have done what the claim says; and
\* no step of train changes the stored Trainer or saves before the end.
C26_TrainStepsWhenReturned ==
    /\ (InTrain /\ xpc = "returned") => TrainedAsClaimed
    /\ (InTrain /\ xpc \in {"loop", "ended", "error", "panicked"}) =>
          /\ xbuilt.out.trainer.renderer = BuiltRenderer
          /\ xrun # NoCall => xrun.saved = <<>>

\* C26: a train that ran all its epochs and returned.
C26_FullRunSeen ==
    /\ InTrain
    /\ xpc = "returned"
    /\ Len(xrun.steps) = MaxEpochs
    /\ xrun.renderer # BuiltRenderer

\* C26: a train that panicked in its first get, the dataset having one
\* point per ray.
C26_PanicSeen ==
    /\ InTrain
    /\ xpc = "panicked"
    /\ xrun = NoCall
    /\ xconfig.dataset.points_per_ray = 1

\* C27: in train and in fit, between two epochs and when the loop has
\* ended, the count of the progress bar is the number of optimizer steps
\* taken.
C27_BarCountsSteps ==
    ((InTrain \/ InFit) /\ xpc \in {"loop", "ended", "returned"}) =>
        xrun.progress_bar.count = Len(xrun.steps)

\* The epochs in which fit went on without advancing the bar.
SkippedEpochs ==
    {e \in 1..(xrun.epoch - 1) :
        e % MonitorPeriod = 0 /\ DatasetLen(xbuilt.out.trainer.dataset_test) = 0}

\* C27, as the code has it: the bar of train counts the steps; the bar of
\* fit counts them but for the monitoring epochs whose test item is missing.
C27_BarCountsStepsInTrain ==
    /\ (InTrain /\ xpc \in {"loop", "ended", "returned"}) =>
          xrun.progress_bar.count = Len(xrun.steps)
    /\ (InFit /\ xpc \in {"loop", "ended", "returned"}) =>
          xrun.progress_bar.count = Len(xrun.steps) - Cardinality(SkippedEpochs)

\* C27: a fit that took a step in its monitoring epoch with no test item.
C27_SkippedUpdateSeen ==
    /\ InFit
    /\ xpc = "returned"
    /\ Len(xrun.steps) = MaxEpochs
    /\ xrun.progress_bar.count = MaxEpochs - 1

\* C27: a train that profiled and advanced its bar.
C27_ProfiledSeen ==
    /\ InTrain
    /\ xpc = "returned"
    /\ xrun.progress_bar.postfix = 1
    /\ xrun.progress_bar.count = MaxEpochs

\* An init call has returned and nothing else has run since.
JustInited == xbuilt.tag = "call" /\ xrun = NoCall /\ xpc \in {"ready", "failed"}

\* Nothing that was at the path is gone or written anew.
NothingLost ==
    /\ xbuilt.before.kind # "absent" => xpath.kind = xbuilt.before.kind
    /\ xbuilt.before.entries \subseteq xpath.entries

\* C28: ExperimentConfig::init with do_clear_artifacts_directory = false
\* deletes and overwrites nothing: on a path that exists, directory or
\* file, it returns an error and leaves the path as it was; with the flag
\* true an init that succeeds has removed whatever was at the path and
\* leaves a directory that holds the new experiment.json and nothing else.
C28_NoClearKeepsPath ==
    (JustInited /\ xconfig.file = "experiment/mod.rs") =>
        /\ ~xbuilt.clear =>
              /\ NothingLost
              /\ xbuilt.before.kind # "absent" =>
                    /\ xbuilt.out.tag = "Err"
                    /\ xpath = xbuilt.before
        /\ (xbuilt.clear /\ xbuilt.out.tag = "Ok") =>
              xpath = Directory({<<"experiment.json", "new">>})
        /\ xbuilt.out.tag = "Ok" =>
              <<"experiment.json", "new">> \in xpath.entries

\* C28: init without the flag refused a directory that held files.
C28_Witness ==
    /\ JustInited
    /\ xconfig.file = "experiment/mod.rs"
    /\ ~xbuilt.clear
    /\ xbuilt.before.kind = "dir"
    /\ xbuilt.before.entries # {}
    /\ xbuilt.out = AlreadyExists
    /\ xpath = xbuilt.before

\* C28: init with the flag replaced a directory that held files.
C28_ClearedSeen ==
    /\ JustInited
    /\ xconfig.file = "experiment/mod.rs"
    /\ xbuilt.clear
    /\ xbuilt.before.entries # {}
    /\ xbuilt.out.tag = "Ok"
    /\ xpath = Directory({<<"experiment.json", "new">>})

\* Dataset construction or renderer construction fails for the configuration.
ConstructionFails ==
    \/ InitFromReader(xconfig.dataset, xconfig.archive).tag # "Ok"
    \/ VolumeRendererInit(xconfig.renderer, xconfig.net).tag # "Ok"

\* C29: in ExperimentConfig::init and in TrainerConfig::init the artifact
\* path is touched only after the dataset and the renderer are built: when
\* either construction fails the path is as it was before the call, and for
\* an invalid dataset or a zero points_per_ray, rays_per_chunk or
\* encoding_factor init returns the error.
C29_ValidateBeforeFilesystem ==
    (xbuilt.tag = "call" /\ xrun = NoCall) =>
        /\ ConstructionFails =>
              /\ xpath = xbuilt.before
              /\ xbuilt.out.tag # "Ok"
        /\ (InvalidConfig(xconfig.dataset, xconfig.archive)
              \/ ZeroConfig(xconfig.renderer)) =>
              /\ xpc = "failed"
              /\ xbuilt.out \in {InvalidData, RendererError, EncoderError}
        /\ xpath # xbuilt.before => ~ConstructionFails

\* C29: an init that would have cleared a directory with files in it, but
\* whose renderer configuration has a zero, returned the error and left
\* the directory alone.
C29_Witness ==
    /\ xbuilt.tag = "call"
    /\ xpc = "failed"
    /\ xbuilt.clear
    /\ xbuilt.before.entries # {}
    /\ InitFromReader(xconfig.dataset, xconfig.archive).tag = "Ok"
    /\ ZeroConfig(xconfig.renderer)
    /\ xpath = xbuilt.before

\* A step in which a get was made.
GetStep == got' # NoCall /\ (got' # got \/ got2' # got2)

\* Every stored distance is the evenly spaced one of its sample.
StoredUnjittered ==
    \A k \in 1..Len(dataset.inners) :
        \A x \in DOMAIN dataset.inners[k].distances.data :
            dataset.inners[k].distances.data[x] = Unjittered(x[3])

\* C30: get is read-only on the dataset: no get, on the full dataset or on
\* either split, changes the stored distances, directions, origins, images,
\* length or noise flag; the stored distances stay the evenly spaced ones,
\* so every access adds its noise to those and a second access moves a
\* sample no further than the first could; directions and image of an index
\* are the same on every access.
C30_GetReadOnly ==
    /\ [][GetStep => dataset' = dataset]_vars
    /\ []((pc = "ready" /\ got # NoCall) =>
             /\ StoredUnjittered
             /\ dataset.has_noisy_distance = (role = "train"))
    /\ []((HasItem(got) /\ HasItem(got2)) =>
             /\ got2.out.directions = got.out.directions
             /\ got2.out.image = got.out.image
             /\ DrawsOf(got2) # {}
             /\ \A noise \in DrawsOf(got2) :
                   \A i \in DOMAIN DrawDistances(got2, noise) :
                       /\ DrawDistances(got2, noise)[i] >= Unjittered(i)
                       /\ DrawDistances(got2, noise)[i] <= Unjittered(i) + Spacing)

\* Two accesses of one train item that drew different jitter, the stored
\* distances being the evenly spaced ones after both.
C30_Witness ==
    /\ role = "train"
    /\ HasItem(got)
    /\ HasItem(got2)
    /\ got2.out.positions # got.out.positions
    /\ got2.out.directions = got.out.directions
    /\ StoredUnjittered

====
